---- MODULE Spec2Model ----
(***************************************************************************)
(* State-machine model of the request-orchestration and resilience layer   *)
(* of chatbot_rag_system: the generation client with its process-wide      *)
(* circuit breaker (llm/openai_compatible.py), the sliding-window rate     *)
(* limiter (ops/rate_limit.py), the semantic cache (cache/semantic.py,     *)
(* cache/kv.py), the idempotency ledger (ops/idempotency.py), the history  *)
(* store (history/store.py), the orchestrator (rag/orchestrator.py) and    *)
(* the REST router (app/routers/rest.py), the SSE router                   *)
(* (app/routers/sse.py) and the admission semaphores (app/main.py).        *)
(*                                                                         *)
(* Each subsystem has its own specification (SpecLLM, SpecRL, SpecRace,    *)
(* SpecCache, SpecRest, SpecHist, SpecResume, SpecIdent, SpecSse,          *)
(* SpecGate, SpecLeak, SpecLedger); a specification leaves the             *)
(* variables of the other subsystems at their initial values.  Time is a   *)
(* shared integer clock `now`; the durations of the program (seconds) are  *)
(* scaled down to ticks.                                                   *)
(***************************************************************************)
EXTENDS Integers, Sequences, FiniteSets, TLC

VARIABLES
    now,          \* wall clock, time.time()
    llmCfg,       \* the LLM_* settings the client was constructed with
    cb,           \* _cb_state: [fail_count, open_until]
    calls,        \* one record per caller of the generation client
    llmGhost,     \* history variables of the generation client
    rlRpm,        \* SETTINGS.RATE_LIMIT_RPM
    zsets,        \* the sorted sets "rl:<ident>" of the shared store
    rlGhost,      \* history variables of the rate limiter
    rlChecks,     \* one record per check_rate_limit call in flight
    rlLog,        \* history variable: the admissions of those calls
    cfg,          \* the settings read by the cache and the orchestrator
    kv,           \* the semantic-cache keys "sc:v1:<digest>" of the store
    ledger,       \* the idempotency keys "idem:v1:<digest>" of the store
    hist,         \* the history keys "hist:<session_id>" of the store
    llmSem,       \* free permits of app.state.llm_sem
    reqs,         \* one record per request in flight
    obs,          \* history variables of the cache and of the request flows
    sseCfg,       \* the SSE_* and concurrency settings read by the routers
    streamSem,    \* free permits of app.state.stream_sem
    streams,      \* one record per SSE connection
    probe         \* the background health worker's call of the backend

llmVars == <<llmCfg, cb, calls, llmGhost>>
rlVars == <<rlRpm, zsets, rlGhost, rlChecks, rlLog>>
storeVars == <<cfg, kv, ledger, hist, llmSem, reqs, obs>>
sseVars == <<sseCfg, streamSem, streams, probe>>

vars == <<now, llmVars, rlVars, storeVars, sseVars>>

----------------------------------------------------------------------------
(* Bounds of the model *)

\* The clock stops advancing at MaxTime.
MaxTime == 3
\* LLM_CB_FAIL_THRESHOLD is drawn from 1..MaxThreshold.
MaxThreshold == 2
\* LLM_MAX_RETRIES is drawn from 0..MaxRetries.
MaxRetries == 1
\* RATE_LIMIT_RPM is drawn from 0..MaxRpm.
MaxRpm == 2
\* The retriever returns between 0 and MaxResults documents.
MaxResults == 4
\* A generation stream carries at most MaxTokens tokens.
MaxTokens == 2
\* The history log is not grown beyond MaxHistory messages.
MaxHistory == 4
\* The clock of the shared store stops advancing at MaxStoreTime.
MaxStoreTime == 1
\* A request slot calls history_append at most MaxTurns times.
MaxTurns == 2

----------------------------------------------------------------------------
(* Program constants, scaled *)

\* LLM_CB_OPEN_SEC in ticks.  In the specification of the generation client
\* one tick stands for 15 s: the open period of 30 s is two ticks, and a
\* backoff sleep of 0.6 * 2**attempt seconds ends within the tick it started
\* in or a later one.
OpenSec == 2
\* _WINDOW_SEC of the rate limiter, in units of the clock's resolution.
WindowSec == 2
\* CACHE_TTL_SEC in ticks.
CacheTtlSec == 1
\* ttl_sec of set_cached in ticks.
IdemTtlSec == 3
\* SEMANTIC_CACHE_MAX_TEXT_CHARS, in words.
MaxTextChars == 24
\* The snippet limit of _fallback_from_context (400 characters), in words.
SnippetChars == 2
\* The number of results _fallback_from_context summarises.
TopSnippets == 3
\* keep_last of summarize_if_needed, in messages.
KeepLast == 2
\* SSE_CACHE_FLUSH_EVERY_N_TOKENS, in tokens.
FlushEvery == 1
\* SSE_RESUME_OVERLAP_TOKENS, in tokens.
OverlapTokens == 1
\* LLM_MAX_CONCURRENT_REQUESTS.
LlmMaxConcurrent == 1

Min(a, b) == IF a < b THEN a ELSE b
Max(a, b) == IF a > b THEN a ELSE b

\* The clock advances.
Tick ==
    /\ now < MaxTime
    /\ now' = now + 1

\* Optional values: None is Python's None, Some(v) a value that is present.
None == <<>>
Some(v) == <<v>>

----------------------------------------------------------------------------
(* Rate limiter: data *)

Idents == {"u1", "u2"}

\* A sorted set that does not exist.  A member is the string str(now) and
\* its score is now, so a sorted set is the set of its scores.
NoZset == [members |-> {}, expire_at |-> 0]

NoRun == [valid |-> FALSE, start |-> 0, n |-> 0, last |-> -1]
NoCheck == [valid |-> FALSE, ident |-> "none", n |-> 0, admitted |-> FALSE,
            outcome |-> "none", count |-> 0, recorded |-> FALSE]

\* The coroutines that run check_rate_limit; `now` is the local variable
\* of line 80.
Checkers == {"k1", "k2"}
IdleCheck == [pc |-> "idle", ident |-> "none", now |-> 0]

\* rlLog[i][t]: how many of the checks in flight of identity i that read
\* the clock at t the store has answered and the limiter has admitted
\* (counted up to MaxRpm + 1).
NoLog == [i \in Idents |-> [t \in 0..MaxTime |-> 0]]

RlGhostInit == [run |-> [i \in Idents |-> NoRun], check |-> NoCheck]

RlQuiet ==
    /\ rlRpm = 1
    /\ zsets = [i \in Idents |-> NoZset]
    /\ rlGhost = RlGhostInit
    /\ rlChecks = [k \in Checkers |-> IdleCheck]
    /\ rlLog = NoLog

----------------------------------------------------------------------------
(* Texts, questions, documents *)

\* A text is a sequence of words; its length is the number of its words.
Ellipsis == "..."
ShortText == <<"ok">>
LongText == [i \in 1..(MaxTextChars + 1) |-> "x"]
MailText == <<"write", "to", "bob@example.com">>

QPlain == <<"hello">>
QMention == <<"what", "is", "password">>
QShare == <<"my", "password", "hunter2">>
QAssign == <<"password", "=", "hunter2">>
Questions == {QPlain, QMention, QShare, QAssign}

UserIds == {""}
SessionIds == {""}
UserInputs == [question : Questions, user_id : UserIds, session_id : SessionIds]

\* RetrievalResult number i (page_content, metadata["source"]).
Doc(i) ==
    [page_content |-> IF i % 2 = 0 THEN <<"the", "secret", "plan">>
                                   ELSE <<"facts">>,
     metadata |-> [source |-> "doc" \o ToString(i)]]

\* What the retriever can return.
ResultLists == {[i \in 1..n |-> Doc(i)] : n \in {0, 1, MaxResults}}

\* safety/rails.py
BLOCKLIST == {"password", "api_key", "secret", "private_key"}
Emails == {"bob@example.com"}
\* The words of at least four characters (\S{4,}).
FourPlus == {"hunter2", "password", "hello", "what", "facts", "secret", "plan",
             "write", "bob@example.com"}

\* SENSITIVE_SHARE_REGEX.search(text): "my <secret word>", or
\* "<secret word> [:=] <four or more characters>".
SensitiveShare(text) ==
    \/ \E i \in 1..(Len(text) - 1) :
          text[i] = "my" /\ text[i + 1] \in BLOCKLIST
    \/ \E i \in 1..(Len(text) - 2) :
          /\ text[i] \in BLOCKLIST
          /\ text[i + 1] \in {"=", ":"}
          /\ text[i + 2] \in FourPlus

\* A check_input that lets every text through.
CheckInputOpen(text) == [allowed |-> TRUE, transformed_text |-> text]

\* check_input
CheckInput(text) ==
    IF SensitiveShare(text)
    THEN [allowed |-> FALSE, transformed_text |-> text]
    ELSE [allowed |-> TRUE, transformed_text |-> text]

\* check_output outside the strict mode: the redacted text.
CheckOutput(text) ==
    [i \in 1..Len(text) |->
        IF text[i] \in Emails THEN "[REDACTED_EMAIL]"
        ELSE IF text[i] \in BLOCKLIST THEN "[REDACTED]"
        ELSE text[i]]

\* Orchestrator._session_ctx and the session_id of the history key.
SessionCtx(ui) ==
    [user_id |-> IF ui.user_id = "" THEN "anon" ELSE ui.user_id,
     session_id |-> IF ui.session_id = "" THEN "anon" ELSE ui.session_id]

HistSession(ui) == IF ui.session_id = "" THEN "default" ELSE ui.session_id

HistKeys == {HistSession(ui) : ui \in UserInputs}

\* Orchestrator._fallback_from_context
Notice == <<"service-degraded-notice">>
SummaryHeader == "summary:"
QuestionLabel == "question:"
LineMarker(i) == "- [" \o ToString(i) \o "]"

Snippet(r) ==
    IF Len(r.page_content) > SnippetChars
    THEN SubSeq(r.page_content, 1, SnippetChars) \o <<Ellipsis>>
    ELSE r.page_content

RECURSIVE SummaryLines(_, _)
SummaryLines(results, i) ==
    IF i > Len(results) THEN <<>>
    ELSE <<LineMarker(i), results[i].metadata.source>> \o Snippet(results[i])
            \o SummaryLines(results, i + 1)

\* A results[:3] that takes every result.
TopResultsAll(results) == results

\* results[:3] (line 54)
TopResults(results) == SubSeq(results, 1, Min(TopSnippets, Len(results)))

FallbackFromContext(question, results) ==
    IF ~cfg.rag_enabled \/ results = <<>>
    THEN Notice
    ELSE <<SummaryHeader>> \o SummaryLines(TopResults(results), 1)
            \o <<QuestionLabel>> \o question

----------------------------------------------------------------------------
(* Semantic cache: cache/semantic.py, cache/kv.py *)

\* _key: the digest of (kind, question, session_ctx), taken as injective.
CacheKey(kind, question, session_ctx) ==
    <<kind, question, session_ctx.user_id, session_ctx.session_id>>

CacheKeys ==
    {CacheKey("any", ui.question, SessionCtx(ui)) : ui \in UserInputs}

\* json.dumps / json.loads of the values the flows store.
JsonDumps(v) == [json |-> v]
JsonLoads(raw) == raw.json

\* A key that does not exist in the store.
NoValue == [raw |-> None, expire_at |-> 0]

\* The store drops the keys whose time to live is over at time t.
Expire(store, t) ==
    [k \in DOMAIN store |->
        IF store[k].raw # None /\ store[k].expire_at <= t THEN NoValue
        ELSE store[k]]

\* A cached dict: each of the four keys is absent (None) or present.
Dict(text, frames, citations, finish_reason) ==
    [text |-> text, frames |-> frames, citations |-> citations,
     finish_reason |-> finish_reason]

\* A truncation that leaves out the "…".
TruncateTextBare(txt, max_chars) ==
    IF Len(txt) > max_chars THEN SubSeq(txt, 1, max_chars) ELSE txt

\* txt[:max_chars] + "…" (post_cache_set, lines 66-68)
TruncateText(txt, max_chars) ==
    IF Len(txt) > max_chars
    THEN SubSeq(txt, 1, max_chars) \o <<Ellipsis>>
    ELSE txt

\* The frames loop of post_cache_set (lines 71-84).
RECURSIVE TruncateFrames(_, _, _)
TruncateFrames(frames, used, max_chars) ==
    IF frames = <<>> \/ used >= max_chars THEN <<>>
    ELSE LET frame     == Head(frames)
             remaining == max_chars - used
             segment   == IF Len(frame) <= remaining THEN frame
                          ELSE SubSeq(frame, 1, remaining)
         IN  <<segment>> \o
                 TruncateFrames(Tail(frames), used + Len(segment), max_chars)

\* The payload post_cache_set stores for `response`.
CachePayload(response) ==
    LET max_chars == Max(0, cfg.max_chars)
    IN  IF max_chars > 0
        THEN [response EXCEPT
                !.text = IF @ # None
                         THEN Some(TruncateText(@[1], max_chars)) ELSE @,
                !.frames = IF @ # None
                           THEN Some(TruncateFrames(@[1], 0, max_chars)) ELSE @]
        ELSE response

\* post_cache_set: the store it leaves.  setex_ok: RedisKV.setex reached the
\* store (a failure is logged and swallowed).
PostCacheSet(store, question, session_ctx, response, setex_ok) ==
    IF ~cfg.cache_enabled \/ ~setex_ok THEN store
    ELSE [store EXCEPT ![CacheKey("any", question, session_ctx)] =
            [raw |-> Some(JsonDumps(CachePayload(response))),
             expire_at |-> now + Max(1, CacheTtlSec)]]

\* pre_cache_get: the value returned.  get_ok: RedisKV.get reached the store
\* (a failure is logged and read as a miss).
PreCacheGet(store, question, session_ctx, get_ok) ==
    IF ~cfg.cache_enabled THEN None
    ELSE LET raw == IF get_ok
                    THEN store[CacheKey("any", question, session_ctx)].raw
                    ELSE None
         IN  IF raw = None THEN None ELSE Some(JsonLoads(raw[1]))

\* The payloads the round trip is exercised with.
Payloads ==
    { Dict(Some(ShortText), None, Some(<<>>), Some("stop")),
      Dict(Some(LongText), None, Some(<<>>), Some("stop")),
      Dict(None, Some(<<ShortText, LongText>>), None, None),
      Dict(Some(MailText), Some(<<LongText, ShortText>>), None, None) }

Settings ==
    [cache_enabled : BOOLEAN, rag_enabled : BOOLEAN,
     max_chars : {0, MaxTextChars}, overlap : 0..OverlapTokens]

----------------------------------------------------------------------------
(* Idempotency ledger: ops/idempotency.py *)

\* The Idempotency-Key header; "" is the absent header.
IdemKeys == {"", "k1"}
RestMethod == "POST"
RestPath == "/rest-retrieve/"

\* _make_key: the digest of "METHOD path idem_key", taken as injective.
MakeKey(idem_key, method, path) == <<method, path, idem_key>>

LedgerKeys == {MakeKey(k, RestMethod, RestPath) : k \in IdemKeys \ {""}}

\* The parameters without a default value of get_cached and set_cached.
GetCachedParams == <<"idem_key", "method", "path">>
SetCachedParams == <<"idem_key", "payload", "method", "path">>

\* A call binds its positional arguments to the parameters in order; a
\* parameter without a default value that is left unbound is a TypeError.
Binds(params, args) == Len(args) >= Len(params)

\* get_cached: the value returned.  get_ok: the store answered.
GetCached(store, idem_key, method, path, get_ok) ==
    LET raw == IF get_ok THEN store[MakeKey(idem_key, method, path)].raw
               ELSE None
    IN  IF raw = None THEN None ELSE Some(JsonLoads(raw[1]))

\* set_cached: the store it leaves.  setex_ok: the store took the write.
SetCached(store, idem_key, payload, method, path, setex_ok) ==
    IF setex_ok
    THEN [store EXCEPT ![MakeKey(idem_key, method, path)] =
            [raw |-> Some(JsonDumps(payload)), expire_at |-> now + IdemTtlSec]]
    ELSE store

----------------------------------------------------------------------------
(* Responses and requests *)

\* A ResponseOutput(**data) that does not take finish_reason from data.
ResponseOutputStop(data) ==
    [text |-> data.text[1],
     citations |-> IF data.citations = None THEN <<>> ELSE data.citations[1],
     finish_reason |-> "stop"]

\* domain/schemas.py: ResponseOutput(**data); citations and finish_reason
\* have defaults, keys that are no field are ignored.
ResponseOutput(data) ==
    [text |-> data.text[1],
     citations |-> IF data.citations = None THEN <<>> ELSE data.citations[1],
     finish_reason |-> IF data.finish_reason = None THEN "stop"
                       ELSE data.finish_reason[1]]

\* resp.model_dump()
ModelDump(resp) ==
    Dict(Some(resp.text), None, Some(resp.citations), Some(resp.finish_reason))

BlockedResponse ==
    [text |-> <<"blocked-notice">>, citations |-> <<>>,
     finish_reason |-> "blocked"]

BlockedChunk == <<"[blocked]">>

\* [r.metadata for r in results]
Citations(results) == [i \in 1..Len(results) |-> results[i].metadata]

\* "".join(full)
RECURSIVE Join(_)
Join(parts) == IF parts = <<>> THEN <<>> ELSE Head(parts) \o Join(Tail(parts))

\* The texts the generation backend answers with, and the tokens it streams.
Answers == {ShortText, LongText}
Tokens == {<<"tok">>}

\* What self.llm.agenerate(messages) does for its caller.
GenOutcomes ==
    {[raised |-> FALSE, text |-> t] : t \in Answers}
        \cup {[raised |-> TRUE, text |-> <<>>]}

Reqs == {"r1", "r2"}

\* security/auth.py, get_identity: the user_id of the Identity of the client
\* behind a request slot (its x-user-id header, or "key:" and the prefix of
\* its API key).  The two slots belong to two clients.
GetIdentity(r) == IF r = "r1" THEN "u1" ELSE "u2"

\* The effects of one request on its collaborators: the cache was read /
\* written (KV.get / KV.setex called), the history was read / written
\* (_r.get / _r.set called on the session's key), the retriever was called,
\* the generation client was called.
NoFx ==
    [cache_read |-> FALSE, cache_write |-> FALSE, hist_read |-> FALSE,
     hist_write |-> FALSE, retriever |-> FALSE, backend |-> FALSE]

NoInput == [question |-> <<>>, user_id |-> "", session_id |-> ""]

\* A request slot.  The fields up to `since` are the locals of the handler;
\* the others are history variables: fx, the effects so far; entered,
\* answer_rest / answer_sse_tokens was called; held, the lookup reached the
\* store and the cache held an entry; found, the entry a cache hit was
\* answered from;
\* gen_failed, the generation call raised; persisted, the turn and the cache
\* entry were stored; reuse, see Reuse; ledger_down, an
\* operation on the idempotency ledger failed; resume_from, the id the
\* client resumes from.  current is the local list of history/store.py
\* (`current` of append, `msgs` of summarize_if_needed) and turns the number
\* of append calls the slot has made; idt is the Identity that get_identity
\* returned for the request.
IdleReq ==
    [pc |-> "idle", kind |-> "none", ui |-> NoInput, idem_key |-> "",
     results |-> <<>>, resp |-> None, frames |-> <<>>, full |-> <<>>,
     chunks |-> <<>>, since |-> 0, fx |-> NoFx, entered |-> FALSE,
     held |-> FALSE, found |-> None, gen_failed |-> FALSE,
     persisted |-> FALSE, reuse |-> FALSE,
     ledger_down |-> FALSE, resume_from |-> 0,
     current |-> <<>>, turns |-> 0, idt |-> "none"]

\* History variables.  done: the request the action just taken ended, as
\* its client observes it (status, ResponseOutput if any, chunks);
\* prev: the last REST request answered by generation whose turn and cache
\* entry were both stored (its input, its response, when it was answered),
\* forgotten when a streaming request for the same input begins and when
\* its cache TTL is over; first: the first response returned under the
\* Idempotency-Key;
\* set / got: the last post_cache_set call and the pre_cache_get call just
\* made; left: the last stream whose client left in mid-stream (its input
\* and the number of chunks the client had received, which is the id of the
\* last delta event it saw).
NoDone == [valid |-> FALSE, status |-> 0, resp |-> None, req |-> IdleReq,
           replay |-> FALSE]
NoPrev == [valid |-> FALSE, ui |-> NoInput, resp |-> None, at |-> 0,
           idt |-> "none"]
NoFirst == [valid |-> FALSE, resp |-> None, at |-> 0]
NoSet == [valid |-> FALSE, key |-> <<>>,
          payload |-> Dict(None, None, None, None), at |-> 0,
          setex_ok |-> FALSE]
NoGot == [valid |-> FALSE, key |-> <<>>, value |-> None, get_ok |-> FALSE]
NoLeft == [valid |-> FALSE, ui |-> NoInput, n |-> 0]

ObsInit ==
    [done |-> NoDone, prev |-> NoPrev, first |-> NoFirst,
     set |-> NoSet, got |-> NoGot, left |-> NoLeft]

\* done and got describe one action only.
Seen(o) == [o EXCEPT !.done = NoDone, !.got = NoGot]

StoreQuiet ==
    /\ kv = [k \in CacheKeys |-> NoValue]
    /\ ledger = [k \in LedgerKeys |-> NoValue]
    /\ hist = [s \in HistKeys |-> <<>>]
    /\ llmSem = Max(1, LlmMaxConcurrent)
    /\ reqs = [r \in Reqs |-> IdleReq]
    /\ obs = ObsInit

DefaultSettings ==
    [cache_enabled |-> TRUE, rag_enabled |-> FALSE, max_chars |-> MaxTextChars,
     overlap |-> OverlapTokens]

DefaultLlmCfg ==
    [enabled |-> TRUE, threshold |-> 1, max_retries |-> 0, has_async |-> TRUE]

\* The SSE connections.
Conns == {"s1", "s2"}

DefaultSseCfg ==
    [max_streams |-> 1, llm_max |-> LlmMaxConcurrent, timeout |-> 0,
     retry_ms |-> 0]

\* One SSE connection.  pc: where event_gen / _stream_logic stands;
\* frames: what the response has handed to the server so far; gen: the
\* token generator answer_sse_tokens ("new" before its first step, "local"
\* while it yields without the backend, "llm" while its backend stream is
\* open, "closed"); n: tokens pulled; connected: the client is there;
\* detected: the length of frames when the poll of line 101 saw the client
\* gone; exit: how the loop ended.
IdleStream ==
    [pc |-> "idle", header |-> None, connected |-> FALSE, frames |-> <<>>,
     eid |-> 0, resume_from |-> 0, start_t |-> 0, deadline |-> None,
     last_hb |-> 0, gen |-> "none", n |-> 0, detected |-> None,
     exit |-> "none"]

IdleProbe == [pc |-> "idle", llm_ok |-> FALSE]

SseQuiet ==
    /\ sseCfg = DefaultSseCfg
    /\ streamSem = DefaultSseCfg.max_streams
    /\ streams = [s \in Conns |-> IdleStream]
    /\ probe = IdleProbe

----------------------------------------------------------------------------
(* Generation client: llm/openai_compatible.py *)

TRANSIENT_CODES == {408, 409, 429, 500, 502, 503, 504}

\* An exception raised by the backend.  status / status_code are the two
\* attributes the client probes; 0 stands for "attribute absent" (None).
Errors ==
    { [status |-> 0,   status_code |-> 0],
      [status |-> 503, status_code |-> 0],
      [status |-> 0,   status_code |-> 503],
      [status |-> 401, status_code |-> 0],
      [status |-> 0,   status_code |-> 401] }

\* RuntimeError("llm_circuit_open") carries neither attribute.
CircuitOpenError == [status |-> 0, status_code |-> 0]

Callers == {"c1", "c2"}
Kinds == {"generate", "agenerate", "stream", "astream"}

\* getattr(e, "status", None) or getattr(e, "status_code", None)
BreakerStatus(e) == IF e.status # 0 THEN e.status ELSE e.status_code

\* The breaker's notion of a transient error (_circuit_on_error, line 71).
BreakerTransient(e) ==
    ~(BreakerStatus(e) # 0 /\ BreakerStatus(e) \notin TRANSIENT_CODES)

\* The retry loops' give-up test (lines 156-160, 277-281, 365-369): they
\* read only the attribute `status`.
RetryGivesUp(e, attempt) ==
    \/ attempt >= llmCfg.max_retries
    \/ (e.status # 0 /\ e.status \notin TRANSIENT_CODES)

\* _circuit_is_open: the value returned.
CircuitIsOpen ==
    llmCfg.enabled /\ cb.open_until > now

\* _circuit_is_open: the breaker state it leaves (lazy close).
CircuitLazyClose(s) ==
    IF llmCfg.enabled /\ ~(s.open_until > now) /\ s.open_until # 0
    THEN [fail_count |-> 0, open_until |-> 0]
    ELSE s

\* _circuit_on_success
CircuitOnSuccess(s) ==
    IF llmCfg.enabled THEN [fail_count |-> 0, open_until |-> 0] ELSE s

\* The threshold test of _circuit_on_error (line 79).
ThresholdReached(fail_count) == fail_count >= llmCfg.threshold

\* _circuit_on_error
CircuitOnError(s, e) ==
    IF ~llmCfg.enabled \/ ~BreakerTransient(e)
    THEN s
    ELSE LET fc == s.fail_count + 1
         IN  [fail_count |-> fc,
              open_until |-> IF ThresholdReached(fc)
                             THEN now + OpenSec
                             ELSE s.open_until]

IdleCall ==
    [kind |-> "none", bridge |-> FALSE, pc |-> "idle", attempt |-> 0,
     yielded |-> FALSE, way2 |-> FALSE, nested |-> FALSE, nattempt |-> 0,
     sent |-> 0, clean |-> TRUE, abandoned |-> FALSE,
     streamed |-> FALSE, earlier |-> FALSE]

\* sent counts the requests one call has sent to the backend, up to MaxSent;
\* clean tells that each of them so far has failed with a transient status
\* or with no status at all.  streamed: the backend stream being read has
\* yielded a chunk to the caller; earlier: a backend stream of this call
\* that is no longer read (a failed attempt, the first response shape) had
\* yielded a chunk to the caller.
MaxSent == MaxRetries + 2

Sends(call) == [call EXCEPT !.sent = Min(call.sent + 1, MaxSent)]

Fails(call, e) == [call EXCEPT !.clean = call.clean /\ BreakerTransient(e)]

\* agenerate / astream run the blocking generate / stream when the client
\* has no AsyncOpenAI (lines 245-247, 291-294 and llm/base.py).
EffectiveKind(k) ==
    IF llmCfg.has_async THEN k
    ELSE IF k = "agenerate" THEN "generate"
    ELSE IF k = "astream" THEN "stream"
    ELSE k

\* LLMClient.astream of llm/base.py: the blocking stream() runs in a
\* producer thread; whatever it raises dies with the thread and the
\* consumer only sees the sentinel, i.e. a normal end of the stream.
Raised(call, how) == IF call.bridge THEN "swallowed" ELSE how

\* History variables.  streak: the consecutive transient backend failures
\* since the last success or lazy close; tripUntil: the end of the open
\* period that the last of fail_threshold consecutive failures starts (0
\* when there is none); invokedOpen: the action just taken sent a request
\* to the backend while now < open_until; entry: the facts of the call
\* entry just taken; ended: the call that the action just taken ended, as
\* its caller observes it.
NoEntry ==
    [valid |-> FALSE, streak |-> 0, within |-> FALSE, elapsed |-> FALSE,
     rejected |-> FALSE, invoked |-> FALSE, fail_count |-> 0]

NoEnd ==
    [valid |-> FALSE, result |-> "none", yielded |-> FALSE, kind |-> "none",
     bridge |-> FALSE, sent |-> 0, clean |-> FALSE]

LlmGhostInit ==
    [streak |-> 0, tripUntil |-> 0, invokedOpen |-> FALSE, entry |-> NoEntry,
     ended |-> NoEnd]

\* entry, invokedOpen and ended describe one action only.
Past(g) == [g EXCEPT !.invokedOpen = FALSE, !.entry = NoEntry, !.ended = NoEnd]

CountFailure(g, e) ==
    IF BreakerTransient(e)
    THEN LET n == Min(g.streak + 1, MaxThreshold + 1)
         IN  [g EXCEPT !.streak = n,
                       !.tripUntil = IF n >= llmCfg.threshold
                                     THEN now + OpenSec ELSE @]
    ELSE g

CountSuccess(g) == [g EXCEPT !.streak = 0, !.tripUntil = 0]

\* The call ends: its caller observes `result`, unless it has gone and has
\* observed the end before (see BridgeAbandon).
Ends(g, call, result) ==
    IF call.abandoned THEN g ELSE
    [g EXCEPT !.ended = [valid |-> TRUE, result |-> result,
                         yielded |-> call.yielded, kind |-> call.kind,
                         bridge |-> call.bridge, sent |-> call.sent,
                         clean |-> call.clean]]

\* A request goes out to the backend (lines 151/187, 220, 267, 318, 334).
Invokes(g) == [g EXCEPT !.invokedOpen = (now < cb.open_until)]

\* A caller enters generate / agenerate / stream / astream: the circuit
\* check of lines 170, 203, 250, 297 and, when it passes, the first request
\* to the backend (there is no suspension point between the two).
LlmCall(c, k) ==
    /\ calls[c].pc = "idle"
    /\ LET ek      == EffectiveKind(k)
           bridged == (k = "astream" /\ ~llmCfg.has_async)
           open    == CircuitIsOpen
           closed  == CircuitLazyClose(cb)
           base    == [IdleCall EXCEPT !.kind = ek, !.bridge = bridged]
           g0      == IF closed # cb THEN CountSuccess(Past(llmGhost))
                                     ELSE Past(llmGhost)
           g1      == [g0 EXCEPT !.entry =
                        [valid |-> TRUE,
                         streak |-> llmGhost.streak,
                         within |-> now < llmGhost.tripUntil,
                         elapsed |-> (cb.open_until # 0 /\ now >= cb.open_until),
                         rejected |-> (open /\ ~bridged),
                         invoked |-> ~open,
                         fail_count |-> closed.fail_count]]
       IN  /\ cb' = closed
           /\ calls' = [calls EXCEPT ![c] =
                  IF open THEN IdleCall
                  ELSE Sends([base EXCEPT !.pc = "inflight"])]
           /\ llmGhost' =
                 IF open THEN Ends(g1, base, Raised(base, "circuit_open"))
                         ELSE Invokes(g1)
    /\ UNCHANGED <<now, llmCfg, rlVars, storeVars, sseVars>>

\* The texts of a completion: `message.content or ""`.
Completions == {<<>>, <<"answer">>}

\* The backend answers the request; text is the content of a one-shot
\* completion.
LlmOk(c, text) ==
    /\ calls[c].pc = "inflight"
    /\ IF calls[c].kind \in {"generate", "agenerate"} \/ calls[c].nested
       THEN \* lines 190-192, 270-272 (the text is returned); for the
            \* one-shot fallback of astream also lines 353-359: `if text:
            \* yield text`
            /\ cb' = CircuitOnSuccess(cb)
            /\ calls' = [calls EXCEPT ![c] = IdleCall]
            /\ llmGhost' = Ends(CountSuccess(Past(llmGhost)),
                                [calls[c] EXCEPT !.clean = FALSE,
                                    !.yielded =
                                    IF calls[c].nested THEN text # <<>>
                                    ELSE TRUE],
                                "ok")
       ELSE /\ calls' = [calls EXCEPT ![c].pc = "streaming"]
            /\ llmGhost' = Past(llmGhost)
            /\ UNCHANGED cb
    /\ UNCHANGED <<now, llmCfg, rlVars, storeVars, sseVars>>

\* The except-branch of a retry loop for error e: give up and raise, or
\* sleep and retry.
GivesUp(call, e) == RetryGivesUp(e, call.attempt)

Sleeps(call) ==
    [call EXCEPT !.pc = "backoff", !.nested = FALSE,
                 !.attempt = call.attempt + 1]

\* The backend request fails with error e.
LlmFail(c, e) ==
    /\ calls[c].pc = "inflight"
    /\ LET call == Fails(calls[c], e)
           cb1  == CircuitOnError(cb, e)
           g    == CountFailure(Past(llmGhost), e)
       IN  IF call.nested /\ ~RetryGivesUp(e, call.nattempt)
           THEN \* the retry loop of agenerate called from astream (line 353)
                /\ cb' = cb1
                /\ calls' = [calls EXCEPT ![c] =
                       [call EXCEPT !.pc = "backoff",
                                    !.nattempt = call.nattempt + 1]]
                /\ llmGhost' = g
           ELSE \* when the nested agenerate gives up, the error reaches
                \* astream's handler (lines 361-371), which records it again
                /\ cb' = IF call.nested THEN CircuitOnError(cb1, e) ELSE cb1
                /\ IF GivesUp(call, e)
                   THEN /\ calls' = [calls EXCEPT ![c] = IdleCall]
                        /\ llmGhost' = Ends(g, call, Raised(call, "raised"))
                   ELSE /\ calls' = [calls EXCEPT ![c] = Sleeps(call)]
                        /\ llmGhost' = g
    /\ UNCHANGED <<now, llmCfg, rlVars, storeVars, sseVars>>

\* The backoff sleep (time.sleep / asyncio.sleep of base_delay * 2**attempt
\* seconds) is over: the loop body runs again and sends the next request.
\* The sleep is shorter than a tick, so the clock may or may not have moved.
LlmWake(c) ==
    /\ calls[c].pc = "backoff"
    /\ calls' = [calls EXCEPT ![c] =
           Sends([calls[c] EXCEPT
                    !.pc = "inflight",
                    !.yielded = IF calls[c].nested THEN @ ELSE FALSE,
                    !.way2 = IF calls[c].nested THEN @ ELSE FALSE,
                    !.earlier = IF calls[c].nested THEN @
                                ELSE @ \/ calls[c].streamed,
                    !.streamed = IF calls[c].nested THEN @ ELSE FALSE])]
    /\ llmGhost' = Invokes(Past(llmGhost))
    /\ UNCHANGED <<now, llmCfg, cb, rlVars, storeVars, sseVars>>

\* A chunk with content arrives and is yielded (lines 229-234, 322-328,
\* 343-349); the model follows the first chunk of each backend stream.
StreamChunk(c) ==
    /\ calls[c].pc = "streaming"
    /\ ~calls[c].streamed
    /\ calls' = [calls EXCEPT ![c].yielded = TRUE, ![c].streamed = TRUE]
    /\ llmGhost' = Past(llmGhost)
    /\ UNCHANGED <<now, llmCfg, cb, rlVars, storeVars, sseVars>>

\* The backend ends the stream normally.
StreamEnd(c) ==
    /\ calls[c].pc = "streaming"
    /\ LET call == calls[c]
           g    == Past(llmGhost)
           \* the stream request itself has not failed
           dry  == [calls[c] EXCEPT !.clean = FALSE]
       IN  IF call.kind = "stream" \/ call.yielded
           THEN \* stream: the finally of lines 235-237; astream: 357-359
                /\ cb' = CircuitOnSuccess(cb)
                /\ calls' = [calls EXCEPT ![c] = IdleCall]
                /\ llmGhost' = Ends(CountSuccess(g),
                                    [call EXCEPT !.clean = FALSE], "ok")
           ELSE \* astream, no token: text = await self.agenerate(...)
                IF CircuitIsOpen
                THEN \* the RuntimeError of line 251 is caught at line 361
                     /\ cb' = CircuitOnError(cb, CircuitOpenError)
                     /\ IF GivesUp(dry, CircuitOpenError)
                        THEN /\ calls' = [calls EXCEPT ![c] = IdleCall]
                             /\ llmGhost' = Ends(g, dry, "circuit_open")
                        ELSE /\ calls' = [calls EXCEPT ![c] = Sleeps(dry)]
                             /\ llmGhost' = g
                ELSE /\ cb' = CircuitLazyClose(cb)
                     /\ calls' = [calls EXCEPT ![c] =
                            Sends([dry EXCEPT !.pc = "inflight",
                                              !.nested = TRUE,
                                              !.nattempt = 0])]
                     /\ llmGhost' = Invokes(IF CircuitLazyClose(cb) # cb
                                            THEN CountSuccess(g) ELSE g)
    /\ UNCHANGED <<now, llmCfg, rlVars, storeVars, sseVars>>

\* The stream raises error e while it is being read.
StreamRaise(c, e) ==
    /\ calls[c].pc = "streaming"
    /\ LET call == Fails(calls[c], e)
           g    == CountFailure(Past(llmGhost), e)
       IN  IF call.kind = "stream"
           THEN \* not inside _retry_loop; the finally of lines 235-237 runs
                /\ cb' = CircuitOnSuccess(cb)
                /\ calls' = [calls EXCEPT ![c] = IdleCall]
                /\ llmGhost' = Ends(g, call, Raised(call, "raised"))
           ELSE /\ cb' = CircuitOnError(cb, e)
                /\ IF GivesUp(call, e)
                   THEN /\ calls' = [calls EXCEPT ![c] = IdleCall]
                        /\ llmGhost' = Ends(g, call, "raised")
                   ELSE /\ calls' = [calls EXCEPT ![c] = Sleeps(call)]
                        /\ llmGhost' = g
    /\ UNCHANGED <<now, llmCfg, rlVars, storeVars, sseVars>>

\* astream: iterating the first response shape raises TypeError, the
\* context-manager shape is requested instead (lines 332-342).
StreamShape(c) ==
    /\ calls[c].pc = "streaming"
    /\ calls[c].kind = "astream"
    /\ ~calls[c].way2
    /\ calls' = [calls EXCEPT ![c] =
           Sends([calls[c] EXCEPT !.pc = "inflight", !.way2 = TRUE,
                                  !.clean = FALSE,
                                  !.earlier = @ \/ calls[c].streamed,
                                  !.streamed = FALSE])]
    /\ llmGhost' = Invokes(Past(llmGhost))
    /\ UNCHANGED <<now, llmCfg, cb, rlVars, storeVars, sseVars>>

\* The consumer closes the generator while it is suspended at a yield.
\* stream: GeneratorExit runs the finally of lines 235-237; astream:
\* GeneratorExit is not an Exception, no handler runs.  The producer thread
\* of the bridge is never closed by its consumer.
StreamClose(c) ==
    /\ calls[c].pc = "streaming"
    /\ calls[c].yielded
    /\ ~calls[c].bridge
    /\ cb' = IF calls[c].kind = "stream" THEN CircuitOnSuccess(cb) ELSE cb
    /\ calls' = [calls EXCEPT ![c] = IdleCall]
    /\ llmGhost' = Ends(Past(llmGhost), [calls[c] EXCEPT !.clean = FALSE],
                        "closed")
    /\ UNCHANGED <<now, llmCfg, rlVars, storeVars, sseVars>>

\* The consumer closes the generator of the thread bridge (LLMClient.astream,
\* llm/base.py lines 20-38): the generator ends at its `await q.get()` or at
\* its yield.  Nothing tells the producer thread, which goes on reading
\* self.stream(...) and putting tokens into the queue.
BridgeAbandon(c) ==
    /\ calls[c].pc # "idle"
    /\ calls[c].bridge
    /\ ~calls[c].abandoned
    /\ llmGhost' = Ends(Past(llmGhost), [calls[c] EXCEPT !.clean = FALSE],
                        "closed")
    /\ calls' = [calls EXCEPT ![c].abandoned = TRUE]
    /\ UNCHANGED <<now, llmCfg, cb, rlVars, storeVars, sseVars>>

LlmTick ==
    /\ Tick
    /\ llmGhost' = Past(llmGhost)
    /\ UNCHANGED <<llmCfg, cb, calls, rlVars, storeVars, sseVars>>

LlmConfigs ==
    [enabled : BOOLEAN, threshold : 1..MaxThreshold,
     max_retries : 0..MaxRetries, has_async : BOOLEAN]

LlmQuiet ==
    /\ cb = [fail_count |-> 0, open_until |-> 0]
    /\ calls = [c \in Callers |-> IdleCall]
    /\ llmGhost = LlmGhostInit

LlmInit(configs) ==
    /\ now = 0
    /\ llmCfg \in configs
    /\ LlmQuiet
    /\ RlQuiet
    /\ cfg = DefaultSettings
    /\ StoreQuiet
    /\ SseQuiet

\* The steps of the callers in `who`, which call the entry points in `kinds`.
LlmNext(who, kinds) ==
    \/ \E c \in who, k \in kinds : LlmCall(c, k)
    \/ \E c \in who, text \in Completions : LlmOk(c, text)
    \/ \E c \in who, e \in Errors : LlmFail(c, e)
    \/ \E c \in who : LlmWake(c)
    \/ \E c \in who : StreamChunk(c)
    \/ \E c \in who : StreamEnd(c)
    \/ \E c \in who, e \in Errors : StreamRaise(c, e)
    \/ \E c \in who : StreamShape(c)
    \/ \E c \in who : StreamClose(c)
    \/ \E c \in who : BridgeAbandon(c)
    \/ LlmTick

----------------------------------------------------------------------------
(* Rate limiter: ops/rate_limit.py *)

\* limit = max(1, SETTINGS.RATE_LIMIT_RPM)
RateLimit == Max(1, rlRpm)

\* ZREMRANGEBYSCORE key lo hi: both ends inclusive.
ZRemRangeByScore(members, lo, hi) ==
    {m \in members : ~(lo <= m /\ m <= hi)}

\* What the store transaction of one check can do: it is applied and
\* answers ("ok"), it is not applied ("down"), or it is applied and its
\* answer is lost ("lost_reply"); the last two raise in the client.
Outcomes == {"ok", "down", "lost_reply"}

\* History variable: the run of checks of one identity that began with a
\* check made when the identity had made no check for a whole window; n
\* counts the checks of the run that lie within one window of its first.
NextRun(run, outcome) ==
    IF outcome # "ok"
    THEN [valid |-> FALSE, start |-> 0, n |-> 0, last |-> now]
    ELSE IF run.last = -1 \/ now - run.last >= WindowSec
    THEN [valid |-> TRUE, start |-> now, n |-> 1, last |-> now]
    ELSE IF run.valid /\ now - run.start < WindowSec
    THEN [run EXCEPT !.n = Min(@ + 1, MaxRpm + 2), !.last = now]
    ELSE [valid |-> FALSE, start |-> 0, n |-> 0, last |-> now]

\* Lines 84-125: the function returns when the transaction raised (the
\* except branch) and when the count it answered is below the limit;
\* otherwise it raises HTTP 429.
AdmitsClosed(outcome, count) == outcome = "ok" /\ ~(count >= RateLimit)

Admits(outcome, count) == outcome # "ok" \/ ~(count >= RateLimit)

\* The store transaction of lines 86-95 for identity i, sent by a check
\* that has read the clock at t: MULTI/EXEC applies the four commands as one
\* step.  The time to live is counted by the store from the moment it
\* applies EXPIRE.
Transact(i, t, outcome) ==
    LET window_start == t - WindowSec
        kept     == ZRemRangeByScore(zsets[i].members, 0, window_start)
        count    == Cardinality(kept)
        applied  == outcome \in {"ok", "lost_reply"}
        admitted == Admits(outcome, count)
        run      == IF t = now THEN NextRun(rlGhost.run[i], outcome)
                    ELSE [valid |-> FALSE, start |-> 0, n |-> 0, last |-> now]
    IN  /\ zsets' = IF applied
                    THEN [zsets EXCEPT ![i] =
                            [members |-> kept \cup {t},
                             expire_at |-> now + WindowSec * 2]]
                    ELSE zsets
        /\ rlGhost' = [run |-> [rlGhost.run EXCEPT ![i] = run],
                       check |-> [valid |-> run.valid, ident |-> i,
                                  n |-> run.n, admitted |-> admitted,
                                  outcome |-> outcome, count |-> count,
                                  recorded |-> applied /\ t \notin kept]]

\* check_rate_limit for identity i, run without a suspension between the
\* clock reading and the transaction.  admitted: the function returns;
\* otherwise it raises HTTP 429.
CheckRateLimit(i, outcome) ==
    /\ Transact(i, now, outcome)
    /\ UNCHANGED <<now, rlRpm, rlChecks, rlLog, llmVars, storeVars, sseVars>>

\* check_rate_limit in two steps, for checks that run concurrently: line 80
\* reads the clock ...
CheckRead(k, i) ==
    /\ rlChecks[k].pc = "idle"
    /\ rlChecks' = [rlChecks EXCEPT ![k] =
                       [pc |-> "read", ident |-> i, now |-> now]]
    /\ UNCHANGED <<now, rlRpm, zsets, rlGhost, rlLog, llmVars, storeVars,
                   sseVars>>

\* ... and `await pipe.execute()` (line 95) sends the transaction, which the
\* store applies after those of the checks that came before it.
CheckExec(k, outcome) ==
    /\ rlChecks[k].pc = "read"
    /\ Transact(rlChecks[k].ident, rlChecks[k].now, outcome)
    /\ rlChecks' = [rlChecks EXCEPT ![k] = IdleCheck]
    /\ rlLog' = IF outcome = "ok" /\ rlGhost'.check.admitted
                THEN [rlLog EXCEPT ![rlChecks[k].ident][rlChecks[k].now] =
                         Min(@ + 1, MaxRpm + 1)]
                ELSE rlLog
    /\ UNCHANGED <<now, rlRpm, llmVars, storeVars, sseVars>>

\* Time passes; the store drops the sorted sets whose time to live is over.
RlTick ==
    /\ Tick
    /\ zsets' = [i \in Idents |->
                    IF zsets[i].members # {} /\ zsets[i].expire_at <= now'
                    THEN NoZset ELSE zsets[i]]
    /\ rlGhost' = [rlGhost EXCEPT !.check = NoCheck]
    /\ UNCHANGED <<rlRpm, rlChecks, rlLog, llmVars, storeVars, sseVars>>

----------------------------------------------------------------------------
(* REST flow: app/routers/rest.py, Orchestrator.answer_rest *)

\* history/store.py: what summarize_if_needed leaves of the log.
Summarize(msgs) ==
    IF Len(msgs) > KeepLast
    THEN SubSeq(msgs, Len(msgs) - KeepLast + 1, Len(msgs))
    ELSE msgs

\* History variable: the request repeats the input of obs.prev within the
\* cache TTL of that answer, and its lookup reaches the store.  obs.prev is
\* the last answer answer_rest generated and stored (turn and cache entry
\* both written), as long as no streaming request for the same input has
\* begun since.
Reuse(req, get_ok) ==
    /\ obs.prev.valid
    /\ obs.prev.ui = req.ui
    /\ now < obs.prev.at + CacheTtlSec
    /\ get_ok

\* History variables when a request ends.
Ended(o, req, status, resp) ==
    LET rest     == req.kind = "rest" /\ status = 200
        answered == rest /\ req.fx.backend /\ req.persisted
        keyed    == rest /\ req.idem_key # ""
        replay   == keyed /\ o.first.valid /\ now < o.first.at + IdemTtlSec
    IN  [Seen(o) EXCEPT
            !.done = [valid |-> TRUE, status |-> status, resp |-> resp,
                      req |-> req, replay |-> replay],
            !.prev = IF answered
                     THEN [valid |-> TRUE, ui |-> req.ui, resp |-> resp,
                           at |-> now, idt |-> req.idt]
                     ELSE @,
            !.first = IF keyed /\ ~replay
                      THEN [valid |-> TRUE, resp |-> resp, at |-> now]
                      ELSE @]

\* An exception leaves the handler: the permit is released (async with) and
\* the catch-all handler of app/main.py answers 500.
Raises(r, req, held) ==
    /\ llmSem' = IF held THEN llmSem + 1 ELSE llmSem
    /\ reqs' = [reqs EXCEPT ![r] = IdleReq]
    /\ obs' = Ended(obs, req, 500, None)
    /\ UNCHANGED ledger

\* answer_rest returns resp: rest.py lines 44-49.  The permit is released,
\* the response is recorded under the Idempotency-Key and returned.
Returns(r, req, resp, held, ledger_ok) ==
    LET args == <<req.idem_key, ModelDump(resp)>>
    IN  IF req.idem_key # "" /\ ~Binds(SetCachedParams, args)
        THEN Raises(r, req, held)
        ELSE /\ llmSem' = IF held THEN llmSem + 1 ELSE llmSem
             /\ reqs' = [reqs EXCEPT ![r] = IdleReq]
             /\ ledger' = IF req.idem_key # ""
                          THEN SetCached(ledger, args[1], args[2], args[3],
                                         args[4], ledger_ok)
                          ELSE ledger
             /\ obs' = Ended(obs,
                             [req EXCEPT !.ledger_down =
                                 @ \/ (req.idem_key # "" /\ ~ledger_ok)],
                             200, Some(resp))

\* rest_retrieve, lines 27-34.  admitted: check_rate_limit returned (the
\* limiter's own state is the subject of SpecRL).
RestRequest(r, ui, idem_key, admitted, ledger_ok) ==
    /\ reqs[r].pc = "idle"
    /\ LET req  == [IdleReq EXCEPT !.kind = "rest", !.ui = ui,
                                   !.idem_key = idem_key,
                                   !.idt = GetIdentity(r)]
           args == <<idem_key>>
       IN  IF ~admitted
           THEN \* HTTP 429
                /\ obs' = Ended(obs, req, 429, None)
                /\ UNCHANGED reqs
           ELSE IF idem_key # "" /\ ~Binds(GetCachedParams, args)
           THEN \* TypeError
                /\ obs' = Ended(obs, req, 500, None)
                /\ UNCHANGED reqs
           ELSE LET cached == IF idem_key # ""
                              THEN GetCached(ledger, args[1], args[2],
                                             args[3], ledger_ok)
                              ELSE None
                    req1   == [req EXCEPT !.ledger_down =
                                  (idem_key # "" /\ ~ledger_ok)]
                IN  IF cached # None
                    THEN /\ obs' = Ended(obs, req1, 200,
                                         Some(ResponseOutput(cached[1])))
                         /\ UNCHANGED reqs
                    ELSE /\ reqs' = [reqs EXCEPT ![r] =
                                        [req1 EXCEPT !.pc = "sem"]]
                         /\ obs' = Seen(obs)
    /\ UNCHANGED <<now, cfg, kv, ledger, hist, llmSem, llmVars, rlVars, sseVars>>

\* The permit is acquired and answer_rest runs up to its first await:
\* the input guardrail (lines 102-122) and the test of line 130.
RestEnter(r, ledger_ok) ==
    /\ reqs[r].pc = "sem"
    /\ llmSem > 0
    /\ LET gate == CheckInput(reqs[r].ui.question)
           req  == [reqs[r] EXCEPT !.entered = TRUE]
       IN  IF ~gate.allowed
           THEN Returns(r, req, BlockedResponse, FALSE, ledger_ok)
           ELSE /\ reqs' = [reqs EXCEPT ![r] =
                    [req EXCEPT !.pc = IF cfg.cache_enabled THEN "cache_get"
                                       ELSE "hist_load"]]
                /\ llmSem' = llmSem - 1
                /\ obs' = Seen(obs)
                /\ UNCHANGED ledger
    /\ UNCHANGED <<now, cfg, kv, hist, llmVars, rlVars, sseVars>>

\* answer_rest, lines 131-162: the cache lookup and, on a hit, the return.
RestCacheGet(r, get_ok, ledger_ok) ==
    /\ reqs[r].pc = "cache_get"
    /\ LET question   == CheckInput(reqs[r].ui.question).transformed_text
           ctx        == SessionCtx(reqs[r].ui)
           held       == kv[CacheKey("any", question, ctx)].raw
           cache_data == PreCacheGet(kv, question, ctx, get_ok)
           req == [reqs[r] EXCEPT
                      !.fx.cache_read = TRUE,
                      !.held = get_ok /\ held # None,
                      !.reuse = Reuse(reqs[r], get_ok)]
       IN  IF cache_data # None /\ cache_data[1].text # None
           THEN Returns(r, [req EXCEPT !.found = cache_data],
                        ResponseOutput(cache_data[1]), TRUE, ledger_ok)
           ELSE /\ reqs' = [reqs EXCEPT ![r] = [req EXCEPT !.pc = "hist_load"]]
                /\ obs' = Seen(obs)
                /\ UNCHANGED <<ledger, llmSem>>
    /\ UNCHANGED <<now, cfg, kv, hist, llmVars, rlVars, sseVars>>

\* answer_rest, lines 164-189: the history is loaded and trimmed (not
\* guarded), the retriever is called (guarded), the generation call begins.
RestHistLoad(r, hist_ok, retr_ok, retrieved) ==
    /\ reqs[r].pc = "hist_load"
    /\ LET s    == HistSession(reqs[r].ui)
           req0 == [reqs[r] EXCEPT !.fx.hist_read = TRUE]
       IN  IF ~hist_ok
           THEN /\ Raises(r, req0, TRUE)
                /\ UNCHANGED hist
           ELSE /\ hist' = [hist EXCEPT ![s] = Summarize(@)]
                /\ reqs' = [reqs EXCEPT ![r] =
                    [req0 EXCEPT
                        !.fx.hist_write = Len(hist[s]) > KeepLast,
                        !.fx.retriever = cfg.rag_enabled,
                        !.results = IF cfg.rag_enabled /\ retr_ok
                                    THEN retrieved ELSE <<>>,
                        !.fx.backend = TRUE,
                        !.pc = "generate"]]
                /\ obs' = Seen(obs)
                /\ UNCHANGED <<ledger, llmSem>>
    /\ UNCHANGED <<now, cfg, kv, llmVars, rlVars, sseVars>>

\* answer_rest, lines 186-208: the generation call returns or raises, the
\* output guardrail runs, the response is built.
RestGenerate(r, out) ==
    /\ reqs[r].pc = "generate"
    /\ LET req      == reqs[r]
           question == CheckInput(req.ui.question).transformed_text
           text     == CheckOutput(
                          IF out.raised
                          THEN FallbackFromContext(question, req.results)
                          ELSE out.text)
           resp     == [text |-> text,
                        citations |-> Citations(req.results),
                        finish_reason |-> IF out.raised THEN "degraded"
                                          ELSE "stop"]
       IN  reqs' = [reqs EXCEPT ![r] =
                [req EXCEPT !.resp = Some(resp), !.gen_failed = out.raised,
                            !.pc = "persist"]]
    /\ obs' = Seen(obs)
    /\ UNCHANGED <<now, cfg, kv, ledger, hist, llmSem, llmVars, rlVars, sseVars>>

\* answer_rest, lines 209-246: history_append, then post_cache_set, in one
\* try block; then the return.  append_ok: the read and the write of
\* history_append succeeded.
RestPersist(r, append_ok, setex_ok, ledger_ok) ==
    /\ reqs[r].pc = "persist"
    /\ LET s        == HistSession(reqs[r].ui)
           question == CheckInput(reqs[r].ui.question).transformed_text
           ctx      == SessionCtx(reqs[r].ui)
           resp     == reqs[r].resp[1]
           req == [reqs[r] EXCEPT
                      !.fx.hist_read = TRUE,
                      !.fx.hist_write = @ \/ append_ok,
                      !.fx.cache_write = append_ok /\ cfg.cache_enabled,
                      !.persisted = append_ok /\ setex_ok /\ cfg.cache_enabled]
       IN  /\ append_ok => Len(hist[s]) + 2 <= MaxHistory
           /\ hist' = IF append_ok
                      THEN [hist EXCEPT ![s] = @ \o <<"user", "assistant">>]
                      ELSE hist
           /\ kv' = IF append_ok
                    THEN PostCacheSet(kv, question, ctx, ModelDump(resp),
                                      setex_ok)
                    ELSE kv
           /\ Returns(r, req, resp, TRUE, ledger_ok)
    /\ UNCHANGED <<now, cfg, llmVars, rlVars, sseVars>>

----------------------------------------------------------------------------
(* Streaming flow: Orchestrator.answer_sse_tokens, driven by its consumer *)

\* The generator ends (or is closed): its consumer has the chunks.
SseEnds(r, req, status) ==
    /\ reqs' = [reqs EXCEPT ![r] = IdleReq]
    /\ obs' = Ended(obs, req, status, None)

\* answer_sse_tokens is called and runs up to its first yield or await:
\* lines 254-260 and the test of line 268.
SseStart(r, ui) ==
    /\ reqs[r].pc = "idle"
    /\ LET req  == [IdleReq EXCEPT !.kind = "sse", !.ui = ui,
                                   !.entered = TRUE,
                                   !.idt = GetIdentity(r)]
           gate == CheckInput(ui.question)
           o    == [obs EXCEPT !.prev = IF @.ui = ui THEN NoPrev ELSE @]
       IN  IF ~gate.allowed
           THEN /\ reqs' = [reqs EXCEPT ![r] = IdleReq]
                /\ obs' = Ended(o, [req EXCEPT !.chunks = <<BlockedChunk>>],
                                200, None)
           ELSE /\ reqs' = [reqs EXCEPT ![r] =
                    [req EXCEPT !.pc = IF cfg.cache_enabled THEN "sse_cache_get"
                                       ELSE "sse_hist_load"]]
                /\ obs' = Seen(o)
    /\ UNCHANGED <<now, cfg, kv, ledger, hist, llmSem, llmVars, rlVars, sseVars>>

\* frames[start_idx:] of lines 285-294.
ReplayAll(frames, resume_from) == frames

ReplayFrom(frames, resume_from) ==
    LET overlap   == Max(0, cfg.overlap)
        start_idx == IF resume_from > 0 THEN Max(0, resume_from - overlap)
                     ELSE 0
    IN  SubSeq(frames, start_idx + 1, Len(frames))

\* Lines 268-320: the cache lookup and, on a hit, the replay of the frames.
SseCacheGet(r, get_ok, resume_from) ==
    /\ reqs[r].pc = "sse_cache_get"
    /\ LET question   == CheckInput(reqs[r].ui.question).transformed_text
           ctx        == SessionCtx(reqs[r].ui)
           held       == kv[CacheKey("any", question, ctx)].raw
           cache_data == PreCacheGet(kv, question, ctx, get_ok)
           req == [reqs[r] EXCEPT
                      !.fx.cache_read = TRUE,
                      !.held = get_ok /\ held # None]
       IN  IF cache_data # None /\ cache_data[1].frames # None
           THEN SseEnds(r, [req EXCEPT !.found = cache_data,
                                       !.resume_from = resume_from,
                                       !.chunks =
                               ReplayFrom(cache_data[1].frames[1], resume_from)],
                        200)
           ELSE /\ reqs' = [reqs EXCEPT ![r] =
                               [req EXCEPT !.pc = "sse_hist_load"]]
                /\ obs' = Seen(obs)
    /\ UNCHANGED <<now, cfg, kv, ledger, hist, llmSem, llmVars, rlVars, sseVars>>

\* Lines 322-357: the history is loaded and trimmed (guarded), the
\* retriever is called (guarded), the generation stream is opened.
SseHistLoad(r, hist_ok, retr_ok, retrieved) ==
    /\ reqs[r].pc = "sse_hist_load"
    /\ LET s == HistSession(reqs[r].ui)
       IN  /\ hist' = IF hist_ok THEN [hist EXCEPT ![s] = Summarize(@)]
                      ELSE hist
           /\ reqs' = [reqs EXCEPT ![r] =
                [reqs[r] EXCEPT
                    !.fx.hist_read = TRUE,
                    !.fx.hist_write = hist_ok /\ Len(hist[s]) > KeepLast,
                    !.fx.retriever = cfg.rag_enabled,
                    !.results = IF cfg.rag_enabled /\ retr_ok
                                THEN retrieved ELSE <<>>,
                    !.fx.backend = TRUE,
                    !.pc = "sse_stream"]]
    /\ obs' = Seen(obs)
    /\ UNCHANGED <<now, cfg, kv, ledger, llmSem, llmVars, rlVars, sseVars>>

\* Lines 357-363: a token arrives and is yielded (outside the strict mode
\* check_stream_token blocks nothing).
SseToken(r, tok) ==
    /\ reqs[r].pc = "sse_stream"
    /\ Len(reqs[r].full) < MaxTokens
    /\ reqs' = [reqs EXCEPT ![r] =
            [reqs[r] EXCEPT !.full = Append(@, tok),
                            !.frames = Append(@, tok),
                            !.chunks = Append(@, tok),
                            !.since = @ + 1,
                            !.pc = "sse_yielded"]]
    /\ obs' = Seen(obs)
    /\ UNCHANGED <<now, cfg, kv, ledger, hist, llmSem, llmVars, rlVars, sseVars>>

\* Lines 365-382: the consumer asks for the next chunk; the generator
\* resumes after the yield and flushes the frames when a flush is due.
SseResume(r, setex_ok) ==
    /\ reqs[r].pc = "sse_yielded"
    /\ LET req      == reqs[r]
           question == CheckInput(req.ui.question).transformed_text
           flush    == /\ cfg.cache_enabled
                       /\ Max(0, FlushEvery) > 0
                       /\ req.since >= Max(0, FlushEvery)
       IN  /\ kv' = IF flush
                    THEN PostCacheSet(kv, question, SessionCtx(req.ui),
                                      Dict(None, Some(req.frames), None, None),
                                      setex_ok)
                    ELSE kv
           /\ reqs' = [reqs EXCEPT ![r] =
                [req EXCEPT !.since = IF flush THEN 0 ELSE @,
                            !.fx.cache_write = @ \/ flush,
                            !.pc = "sse_stream"]]
    /\ obs' = Seen(obs)
    /\ UNCHANGED <<now, cfg, ledger, hist, llmSem, llmVars, rlVars, sseVars>>

\* The consumer closes the generator while it is suspended at a yield:
\* nothing after the yield runs.
SseClose(r) ==
    /\ reqs[r].pc \in {"sse_yielded", "sse_fallback_yielded"}
    /\ SseEnds(r, reqs[r], 499)
    /\ UNCHANGED <<now, cfg, kv, ledger, hist, llmSem, llmVars, rlVars, sseVars>>

\* A failure handler that yields the fallback text without recording it in
\* the frame list.
SseStreamFailsUnrecorded(r) ==
    /\ reqs[r].pc = "sse_stream"
    /\ LET req      == reqs[r]
           question == CheckInput(req.ui.question).transformed_text
           fallback_text == FallbackFromContext(question, req.results)
       IN  reqs' = [reqs EXCEPT ![r] =
                [req EXCEPT !.full = <<fallback_text>>,
                            !.chunks = Append(@, fallback_text),
                            !.gen_failed = TRUE,
                            !.pc = "sse_fallback_yielded"]]
    /\ obs' = Seen(obs)
    /\ UNCHANGED <<now, cfg, kv, ledger, hist, llmSem, llmVars, rlVars, sseVars>>

\* SseClose for a client that has received every chunk yielded so far and
\* leaves; what it has received is remembered in obs.left.
SseDisconnect(r) ==
    /\ reqs[r].pc = "sse_yielded"
    /\ reqs' = [reqs EXCEPT ![r] = IdleReq]
    /\ obs' = [Ended(obs, reqs[r], 499, None) EXCEPT
                 !.left = [valid |-> TRUE, ui |-> reqs[r].ui,
                           n |-> Len(reqs[r].chunks)]]
    /\ UNCHANGED <<now, cfg, kv, ledger, hist, llmSem, llmVars, rlVars, sseVars>>

\* Lines 383-394: the stream raises; the fallback text is yielded.
SseStreamFails(r) ==
    /\ reqs[r].pc = "sse_stream"
    /\ LET req      == reqs[r]
           question == CheckInput(req.ui.question).transformed_text
           fallback_text == FallbackFromContext(question, req.results)
       IN  reqs' = [reqs EXCEPT ![r] =
                [req EXCEPT !.full = <<fallback_text>>,
                            !.frames = Append(@, fallback_text),
                            !.chunks = Append(@, fallback_text),
                            !.gen_failed = TRUE,
                            !.pc = "sse_fallback_yielded"]]
    /\ obs' = Seen(obs)
    /\ UNCHANGED <<now, cfg, kv, ledger, hist, llmSem, llmVars, rlVars, sseVars>>

\* Lines 396-439: the output guardrail, history_append and post_cache_set
\* of {frames, text} in one try block, then the end of the generator.  It
\* runs when the stream has ended, or when the consumer asks for the chunk
\* after the fallback text.
SseFinish(r, append_ok, setex_ok) ==
    /\ reqs[r].pc \in {"sse_stream", "sse_fallback_yielded"}
    /\ LET req0     == reqs[r]
           s        == HistSession(req0.ui)
           question == CheckInput(req0.ui.question).transformed_text
           text     == CheckOutput(Join(req0.full))
           req == [req0 EXCEPT
                      !.fx.hist_read = TRUE,
                      !.fx.hist_write = @ \/ append_ok,
                      !.fx.cache_write =
                          @ \/ (append_ok /\ cfg.cache_enabled),
                      !.persisted = append_ok /\ setex_ok /\ cfg.cache_enabled]
       IN  /\ append_ok => Len(hist[s]) + 2 <= MaxHistory
           /\ hist' = IF append_ok
                      THEN [hist EXCEPT ![s] = @ \o <<"user", "assistant">>]
                      ELSE hist
           /\ kv' = IF append_ok
                    THEN PostCacheSet(kv, question, SessionCtx(req0.ui),
                                      Dict(Some(text), Some(req0.frames),
                                           None, None),
                                      setex_ok)
                    ELSE kv
           /\ SseEnds(r, req, 200)
    /\ UNCHANGED <<now, cfg, ledger, llmSem, llmVars, rlVars, sseVars>>

\* Time passes; the store drops the keys whose time to live is over.
StoreTick ==
    /\ now < MaxStoreTime
    /\ now' = now + 1
    /\ kv' = Expire(kv, now')
    /\ ledger' = Expire(ledger, now')
    /\ obs' = [Seen(obs) EXCEPT
                 !.prev = IF @.valid /\ now' >= @.at + CacheTtlSec
                          THEN NoPrev ELSE @]
    /\ UNCHANGED <<cfg, hist, llmSem, reqs, llmVars, rlVars, sseVars>>

----------------------------------------------------------------------------
(* The cache functions called on their own *)

CacheQuestions == {QPlain, QMention}
SessionCtxs == {SessionCtx(ui) : ui \in UserInputs}

\* post_cache_set(question, session_ctx, response)
CachePost(question, session_ctx, response, setex_ok) ==
    /\ kv' = PostCacheSet(kv, question, session_ctx, response, setex_ok)
    /\ obs' = [Seen(obs) EXCEPT
                 !.set = [valid |-> TRUE,
                          key |-> CacheKey("any", question, session_ctx),
                          payload |-> response, at |-> now,
                          setex_ok |-> setex_ok]]
    /\ UNCHANGED <<now, cfg, ledger, hist, llmSem, reqs, llmVars, rlVars, sseVars>>

\* pre_cache_get(question, session_ctx)
CacheGet(question, session_ctx, get_ok) ==
    /\ obs' = [Seen(obs) EXCEPT
                 !.got = [valid |-> TRUE,
                          key |-> CacheKey("any", question, session_ctx),
                          value |-> PreCacheGet(kv, question, session_ctx,
                                                get_ok),
                          get_ok |-> get_ok]]
    /\ UNCHANGED <<now, cfg, kv, ledger, hist, llmSem, reqs, llmVars, rlVars, sseVars>>


----------------------------------------------------------------------------
(* The ledger functions called on their own *)

\* set_cached(idem_key, payload, method, path): lines 66-84.  encodable:
\* json.dumps takes the payload; setex_ok: the store takes the write.
LedgerSet(idem_key, payload, encodable, setex_ok) ==
    /\ ledger' = SetCached(ledger, idem_key, payload, RestMethod, RestPath,
                           encodable /\ setex_ok)
    /\ obs' = [Seen(obs) EXCEPT
                 !.set = [valid |-> TRUE,
                          key |-> MakeKey(idem_key, RestMethod, RestPath),
                          payload |-> payload, at |-> now,
                          setex_ok |-> encodable /\ setex_ok]]
    /\ UNCHANGED <<now, cfg, kv, hist, llmSem, reqs, llmVars, rlVars, sseVars>>

\* get_cached(idem_key, method, path): lines 35-56.
LedgerGet(idem_key, get_ok) ==
    /\ obs' = [Seen(obs) EXCEPT
                 !.got = [valid |-> TRUE,
                          key |-> MakeKey(idem_key, RestMethod, RestPath),
                          value |-> GetCached(ledger, idem_key, RestMethod,
                                              RestPath, get_ok),
                          get_ok |-> get_ok]]
    /\ UNCHANGED <<now, cfg, kv, ledger, hist, llmSem, reqs, llmVars, rlVars, sseVars>>

\* Time passes; the store drops the ledger keys whose time to live is over.
LedgerTick ==
    /\ now < MaxTime
    /\ now' = now + 1
    /\ ledger' = Expire(ledger, now')
    /\ obs' = Seen(obs)
    /\ UNCHANGED <<cfg, kv, hist, llmSem, reqs, llmVars, rlVars, sseVars>>
----------------------------------------------------------------------------
(* History store: history/store.py, one step per call of the store.  Each *)
(* `await _r.get` / `await _r.set` is a point where another request runs. *)

\* Message(role, content); the content names the request and its turn.
Message(role, content) == [role |-> role, content |-> content]

\* The messages a request hands to history_append (orchestrator.py, lines
\* 211-217): its question and its answer.
TurnOf(r, n) == <<Message("user", <<r, n>>), Message("assistant", <<r, n>>)>>

\* msgs[-keep_last:]
KeepLastOf(msgs, keep_last) ==
    SubSeq(msgs, Max(1, Len(msgs) - keep_last + 1), Len(msgs))

\* A request of the session ends; the slot keeps its count of appends.
HistIdle(req) == [IdleReq EXCEPT !.turns = req.turns]

\* summarize_if_needed, line 30: `msgs = await get(session_id)`.  get_ok:
\* the store answers; otherwise the call raises and the request ends.
SummarizeGet(r, s, get_ok) ==
    /\ reqs[r].pc = "idle"
    /\ reqs[r].turns < MaxTurns
    /\ reqs' = [reqs EXCEPT ![r] =
          IF ~get_ok THEN HistIdle(@)
          ELSE [@ EXCEPT !.kind = "hist", !.current = hist[s],
                         !.pc = IF Len(hist[s]) > KeepLast
                                THEN "summarize_set" ELSE "append_get"]]
    /\ UNCHANGED <<now, cfg, kv, ledger, hist, llmSem, obs, llmVars, rlVars, sseVars>>

\* summarize_if_needed, lines 31-33: the last keep_last messages of the
\* list read are written back.
SummarizeSet(r, s, set_ok) ==
    /\ reqs[r].pc = "summarize_set"
    /\ hist' = IF set_ok
               THEN [hist EXCEPT ![s] = KeepLastOf(reqs[r].current, KeepLast)]
               ELSE hist
    /\ reqs' = [reqs EXCEPT ![r] =
          IF ~set_ok THEN HistIdle(@)
          ELSE [@ EXCEPT !.current = <<>>, !.pc = "append_get"]]
    /\ UNCHANGED <<now, cfg, kv, ledger, llmSem, obs, llmVars, rlVars, sseVars>>

\* append, line 25: `current = await get(session_id)`.
AppendGet(r, s, get_ok) ==
    /\ reqs[r].pc = "append_get"
    /\ Len(hist[s]) + 2 <= MaxHistory
    /\ reqs' = [reqs EXCEPT ![r] =
          IF ~get_ok THEN HistIdle(@)
          ELSE [@ EXCEPT !.current = hist[s], !.turns = @ + 1,
                         !.pc = "append_set"]]
    /\ UNCHANGED <<now, cfg, kv, ledger, hist, llmSem, obs, llmVars, rlVars, sseVars>>

\* An append that is one operation of the store: the turn is added to the
\* list the store holds when the write arrives.
AppendSetAtomic(r, s, set_ok) ==
    /\ reqs[r].pc = "append_set"
    /\ hist' = IF set_ok
               THEN [hist EXCEPT ![s] = @ \o TurnOf(r, reqs[r].turns)]
               ELSE hist
    /\ reqs' = [reqs EXCEPT ![r] = HistIdle(@)]
    /\ UNCHANGED <<now, cfg, kv, ledger, llmSem, obs, llmVars, rlVars, sseVars>>

\* append, lines 26-27: the list read, extended by the messages, is
\* written back.
AppendSet(r, s, set_ok) ==
    /\ reqs[r].pc = "append_set"
    /\ hist' = IF set_ok
               THEN [hist EXCEPT ![s] =
                        reqs[r].current \o TurnOf(r, reqs[r].turns)]
               ELSE hist
    /\ reqs' = [reqs EXCEPT ![r] = HistIdle(@)]
    /\ UNCHANGED <<now, cfg, kv, ledger, llmSem, obs, llmVars, rlVars, sseVars>>

----------------------------------------------------------------------------
(* The SSE router (app/routers/sse.py), the admission semaphores and the   *)
(* health worker (app/main.py)                                             *)

\* SSE_STREAM_TIMEOUT_SEC, SSE_HEARTBEAT_SEC and the floor of the heartbeat
\* period (180 s, 15 s and 5 s), in ticks.
StreamTimeoutSec == 2
HeartbeatSec == 1
HeartbeatFloor == 1

\* The largest semaphore size, SSE_RETRY_MS and Last-Event-ID explored.
MaxGate == 2
MaxRetryMs == 1
MaxResume == 2

SseConfigs ==
    [max_streams : 1..MaxGate, llm_max : 0..MaxGate,
     timeout : {0, StreamTimeoutSec}, retry_ms : 0..MaxRetryMs]

\* The values of the Last-Event-ID header: absent, empty, not a number, and
\* the decimal texts of small integers.
IntTexts == {ToString(n) : n \in (-1)..MaxResume}
LastEventIdHeaders == {None, Some(""), Some("abc")} \cup {Some(t) : t \in IntTexts}

\* int(val): defined on the decimal texts only (ValueError otherwise).
IsIntText(t) == \E n \in (-1)..(MaxResume + MaxTokens + 2) : ToString(n) = t
IntOf(t) == CHOOSE n \in (-1)..(MaxResume + MaxTokens + 2) : ToString(n) = t

\* _last_event_id: `int(val) if val else 0`, and 0 when int() raises.
LastEventIdZero(header) == 0

LastEventId(header) ==
    IF header = None \/ header = Some("") THEN 0
    ELSE IF IsIntText(header[1]) THEN IntOf(header[1])
    ELSE 0

\* format_sse: an optional "id" line, the "event" line, the "data" line.  A
\* frame is the sequence of its <<field, value>> lines.
FormatSse(event, data, id) ==
    (IF id # None THEN << <<"id", id[1]>> >> ELSE <<>>)
        \o << <<"event", event>>, <<"data", JsonDumps(data)>> >>

\* The raw frames of lines 76 and 132.
RetryFrame(ms) == << <<"retry", ms>> >>
KeepAlive == << <<"comment", "keepalive">> >>

\* The value of a field of a frame, if the frame has the field.
Field(frame, name) ==
    IF \E i \in 1..Len(frame) : frame[i][1] = name
    THEN Some(frame[CHOOSE i \in 1..Len(frame) : frame[i][1] = name][2])
    ELSE None

\* Lines 74-76: the frames sent before the token loop.
OpeningBare(session_id) ==
    IF sseCfg.retry_ms > 0 THEN <<RetryFrame(sseCfg.retry_ms)>> ELSE <<>>

Opening(session_id) ==
    <<FormatSse("metadata", [session_id |-> session_id], None)>>
        \o (IF sseCfg.retry_ms > 0 THEN <<RetryFrame(sseCfg.retry_ms)>>
            ELSE <<>>)

\* Lines 83-85: the deadline of a stream that starts at start_t.
Deadline(start_t) ==
    LET stream_timeout == Max(0, sseCfg.timeout)
    IN  IF stream_timeout > 0 THEN Some(start_t + stream_timeout) ELSE None

\* Lines 120-124 and 137: the closing frames.
DoneOk(eid) == FormatSse("done", [ok |-> TRUE], Some(ToString(eid)))
DoneTimeout(eid) ==
    FormatSse("done", [ok |-> FALSE, reason |-> "timeout"],
              Some(ToString(eid)))

\* Line 127.
Delta(tok, eid) == FormatSse("delta", [text |-> tok], Some(ToString(eid)))

\* sse_retrieve, lines 37-45 and 146-151: the rate limiter admits the
\* request or answers 429; an admitted request gets its StreamingResponse,
\* whose body event_gen then produces.
SseRetrieve(s, header, admitted) ==
    /\ streams[s].pc \in {"idle", "ended"}
    /\ streams' = [streams EXCEPT ![s] =
          IF admitted
          THEN [IdleStream EXCEPT !.pc = "stream_sem", !.header = header,
                                  !.connected = TRUE]
          ELSE IdleStream]
    /\ UNCHANGED <<now, sseCfg, streamSem, probe, llmVars, rlVars, storeVars>>

\* A semaphore with `permits` free permits lets a caller in.
HasRoomAlways(permits) == TRUE

HasRoom(permits) == permits > 0

\* event_gen, line 49: `async with stream_sem`.
StreamSemAcquire(s) ==
    /\ streams[s].pc = "stream_sem"
    /\ HasRoom(streamSem)
    /\ streamSem' = streamSem - 1
    /\ streams' = [streams EXCEPT ![s].pc = "llm_sem"]
    /\ UNCHANGED <<now, sseCfg, probe, llmVars, rlVars, storeVars>>

\* event_gen, line 52 (`async with llm_sem`), and _stream_logic up to the
\* top of its loop, lines 73-87: the metadata frame, the retry directive,
\* the resume point, the deadline and the token generator.
LlmSemAcquire(s) ==
    /\ streams[s].pc = "llm_sem"
    /\ llmSem > 0
    /\ llmSem' = llmSem - 1
    /\ LET resume_from == LastEventId(streams[s].header)
       IN  streams' = [streams EXCEPT ![s] =
              [@ EXCEPT !.pc = "poll",
                        !.frames = Opening("default"),
                        !.resume_from = resume_from,
                        !.eid = resume_from,
                        !.last_hb = now,
                        !.start_t = now,
                        !.deadline = Deadline(now),
                        !.gen = "new"]]
    /\ UNCHANGED <<now, sseCfg, streamSem, probe, cfg, kv, ledger, hist, reqs,
                   obs, llmVars, rlVars>>

\* An exit that keeps the generation permit.
StreamExitKeeps(s, st, how) ==
    /\ streams' = [streams EXCEPT ![s] =
          [st EXCEPT !.pc = "ended", !.gen = "closed", !.exit = how]]
    /\ llmSem' = llmSem
    /\ streamSem' = streamSem + 1

\* The finally of lines 139-144 (agen.aclose()) and the exits of the two
\* `async with` blocks of event_gen.
StreamExit(s, st, how) ==
    /\ streams' = [streams EXCEPT ![s] =
          [st EXCEPT !.pc = "ended", !.gen = "closed", !.exit = how]]
    /\ llmSem' = llmSem + 1
    /\ streamSem' = streamSem + 1

\* The top of the loop, lines 101-102 and 89-96: the disconnect poll; for a
\* client that is still there, the deadline test of _anext_with_deadline
\* and either the TimeoutError of line 95 or the wait_for of line 96.
StreamPoll(s) ==
    /\ streams[s].pc = "poll"
    /\ LET st == streams[s]
       IN  IF ~st.connected
           THEN \* break, then lines 136-137
                StreamExit(s, [st EXCEPT
                                 !.detected = Some(Len(st.frames)),
                                 !.eid = @ + 1,
                                 !.frames = Append(@, DoneOk(st.eid + 1))],
                           "disconnect")
           ELSE IF st.deadline # None /\ st.deadline[1] - now <= 0
           THEN \* lines 109-124
                StreamExit(s, [st EXCEPT
                                 !.eid = @ + 1,
                                 !.frames = Append(@, DoneTimeout(st.eid + 1))],
                           "timeout")
           ELSE /\ streams' = [streams EXCEPT ![s].pc = "pull"]
                /\ UNCHANGED <<llmSem, streamSem>>
    /\ UNCHANGED <<now, sseCfg, probe, cfg, kv, ledger, hist, reqs, obs,
                   llmVars, rlVars>>

\* answer_sse_tokens takes its first step (rag/orchestrator.py, lines
\* 254-357): it answers from what it has (the blocked notice or the cached
\* frames) or opens the backend stream.
GenOpens(s, local) ==
    /\ streams[s].pc = "pull"
    /\ streams[s].gen = "new"
    /\ streams' = [streams EXCEPT ![s].gen = IF local THEN "local" ELSE "llm"]
    /\ UNCHANGED <<now, sseCfg, streamSem, probe, llmVars, rlVars, storeVars>>

\* The wait_for of line 96 returns what the generator gives as long as the
\* deadline has not passed.
InTimeAlways(st) == TRUE

InTime(st) == IF st.deadline = None THEN TRUE ELSE now < st.deadline[1]

\* Lines 104, 126-133: a token arrives; the delta frame and, when the
\* heartbeat period has passed, the keepalive comment.
StreamDelta(s, tok) ==
    /\ streams[s].pc = "pull"
    /\ InTime(streams[s])
    /\ streams[s].gen \in {"local", "llm"}
    /\ streams[s].n < MaxTokens
    /\ LET st  == streams[s]
           eid == st.eid + 1
           hb  == now - st.last_hb >= Max(HeartbeatFloor, HeartbeatSec)
       IN  streams' = [streams EXCEPT ![s] =
              [st EXCEPT !.pc = "poll",
                         !.eid = eid,
                         !.n = @ + 1,
                         !.frames = Append(@, Delta(tok, eid))
                                      \o (IF hb THEN <<KeepAlive>> ELSE <<>>),
                         !.last_hb = IF hb THEN now ELSE @]]
    /\ UNCHANGED <<now, sseCfg, streamSem, probe, llmVars, rlVars, storeVars>>

\* Lines 106-108, 136-137: the generator is exhausted.
StreamExhausted(s) ==
    /\ streams[s].pc = "pull"
    /\ InTime(streams[s])
    /\ streams[s].gen \in {"local", "llm"}
    /\ LET st == streams[s]
       IN  StreamExit(s, [st EXCEPT !.eid = @ + 1,
                                    !.frames = Append(@, DoneOk(st.eid + 1))],
                      "end")
    /\ UNCHANGED <<now, sseCfg, probe, cfg, kv, ledger, hist, reqs, obs,
                   llmVars, rlVars>>

\* Lines 96, 109-124: the wait_for of the pending pull runs out.
StreamTimeout(s) ==
    /\ streams[s].pc = "pull"
    /\ ~InTime(streams[s])
    /\ LET st == streams[s]
       IN  StreamExit(s, [st EXCEPT
                            !.eid = @ + 1,
                            !.frames = Append(@, DoneTimeout(st.eid + 1))],
                      "timeout")
    /\ UNCHANGED <<now, sseCfg, probe, cfg, kv, ledger, hist, reqs, obs,
                   llmVars, rlVars>>

\* The token generator raises: the exception leaves the loop (it is neither
\* StopAsyncIteration nor TimeoutError, lines 104-109), the finally of lines
\* 139-144 runs and the exception leaves event_gen; no frame is sent.
StreamError(s) ==
    /\ streams[s].pc = "pull"
    /\ InTime(streams[s])
    /\ streams[s].gen \in {"local", "llm"}
    /\ StreamExit(s, streams[s], "error")
    /\ UNCHANGED <<now, sseCfg, probe, cfg, kv, ledger, hist, reqs, obs,
                   llmVars, rlVars>>

\* The client goes away.
ClientLeaves(s) ==
    /\ streams[s].pc \notin {"idle", "ended"}
    /\ streams[s].connected
    /\ streams' = [streams EXCEPT ![s].connected = FALSE]
    /\ UNCHANGED <<now, sseCfg, streamSem, probe, llmVars, rlVars, storeVars>>

\* _health_worker / _llm_health_check of app/main.py: the periodic call of
\* orch.llm.agenerate (line 46) and its end (lines 47-53).
HealthCheckStart ==
    /\ probe.pc = "idle"
    /\ probe' = [probe EXCEPT !.pc = "inflight"]
    /\ UNCHANGED <<now, sseCfg, streamSem, streams, llmVars, rlVars, storeVars>>

HealthCheckEnd(ok) ==
    /\ probe.pc = "inflight"
    /\ probe' = [pc |-> "idle", llm_ok |-> ok]
    /\ UNCHANGED <<now, sseCfg, streamSem, streams, llmVars, rlVars, storeVars>>

SseTick ==
    /\ now < MaxTime
    /\ now' = now + 1
    /\ UNCHANGED <<llmVars, rlVars, storeVars, sseVars>>

----------------------------------------------------------------------------
(* Specifications *)

\* The generation client, one caller after the other: every entry point,
\* every configuration.
InitLLM == LlmInit(LlmConfigs)
NextLLM == LlmNext({"c1"}, Kinds)
SpecLLM == InitLLM /\ [][NextLLM]_vars

\* The rate limiter: every limit, every identity.
InitRL ==
    /\ now = 0
    /\ rlRpm \in 0..MaxRpm
    /\ zsets = [i \in Idents |-> NoZset]
    /\ rlGhost = RlGhostInit
    /\ rlChecks = [k \in Checkers |-> IdleCheck]
    /\ rlLog = NoLog
    /\ llmCfg = DefaultLlmCfg
    /\ LlmQuiet
    /\ cfg = DefaultSettings
    /\ StoreQuiet
    /\ SseQuiet

NextRL ==
    \/ \E i \in Idents, outcome \in Outcomes : CheckRateLimit(i, outcome)
    \/ RlTick

SpecRL == InitRL /\ [][NextRL]_vars

\* Concurrent checks of one identity: each reads the clock and sends its
\* transaction in a step of its own.
NextRace ==
    \/ \E k \in Checkers : CheckRead(k, "u1")
    \/ \E k \in Checkers, outcome \in Outcomes : CheckExec(k, outcome)
    \/ RlTick

SpecRace == InitRL /\ [][NextRace]_vars

StoreInit(settings) ==
    /\ now = 0
    /\ cfg \in settings
    /\ StoreQuiet
    /\ SseQuiet
    /\ llmCfg = DefaultLlmCfg
    /\ LlmQuiet
    /\ RlQuiet

\* The cache functions called on their own, under every setting they read.
InitCache == StoreInit({s \in Settings : s.overlap = OverlapTokens})

NextCache ==
    \/ \E q \in CacheQuestions, ctx \in SessionCtxs, p \in Payloads,
          setex_ok \in BOOLEAN : CachePost(q, ctx, p, setex_ok)
    \/ \E q \in CacheQuestions, ctx \in SessionCtxs, get_ok \in BOOLEAN :
          CacheGet(q, ctx, get_ok)
    \/ StoreTick

SpecCache == InitCache /\ [][NextCache]_vars

\* The inputs that make a difference: the ledger is used only under an
\* Idempotency-Key, the retriever only when RAG is enabled.
LedgerFaults(r) == IF reqs[r].idem_key = "" THEN {TRUE} ELSE BOOLEAN
RetrieverFaults == IF cfg.rag_enabled THEN BOOLEAN ELSE {TRUE}
Retrievable == IF cfg.rag_enabled THEN ResultLists ELSE {<<>>}

\* The inputs of the requests: a question that mentions a sensitive word
\* and the questions that share a secret.
RequestInputs == {ui \in UserInputs : ui.question # QPlain}

\* The REST and streaming flows of the requests in `who`.
RestNext(who) ==
    \/ \E r \in who, ui \in RequestInputs, k \in IdemKeys,
          admitted \in BOOLEAN, ledger_ok \in BOOLEAN :
          RestRequest(r, ui, k, admitted, ledger_ok)
    \/ \E r \in who : \E ledger_ok \in LedgerFaults(r) : RestEnter(r, ledger_ok)
    \/ \E r \in who, get_ok \in BOOLEAN : \E ledger_ok \in LedgerFaults(r) :
          RestCacheGet(r, get_ok, ledger_ok)
    \/ \E r \in who, hist_ok \in BOOLEAN, retr_ok \in RetrieverFaults,
          retrieved \in Retrievable :
          RestHistLoad(r, hist_ok, retr_ok, retrieved)
    \/ \E r \in who, out \in GenOutcomes : RestGenerate(r, out)
    \/ \E r \in who, append_ok \in BOOLEAN, setex_ok \in BOOLEAN :
          \E ledger_ok \in LedgerFaults(r) :
          RestPersist(r, append_ok, setex_ok, ledger_ok)
    \/ \E r \in who, ui \in RequestInputs : SseStart(r, ui)
    \/ \E r \in who, get_ok \in BOOLEAN, resume_from \in 0..(MaxTokens + 1) :
          SseCacheGet(r, get_ok, resume_from)
    \/ \E r \in who, hist_ok \in BOOLEAN, retr_ok \in RetrieverFaults,
          retrieved \in Retrievable :
          SseHistLoad(r, hist_ok, retr_ok, retrieved)
    \/ \E r \in who, tok \in Tokens : SseToken(r, tok)
    \/ \E r \in who, setex_ok \in BOOLEAN : SseResume(r, setex_ok)
    \/ \E r \in who : SseClose(r)
    \/ \E r \in who : SseStreamFails(r)
    \/ \E r \in who, append_ok \in BOOLEAN, setex_ok \in BOOLEAN :
          SseFinish(r, append_ok, setex_ok)
    \/ StoreTick

\* One request after the other, with the truncation of cached texts on.
InitRest == StoreInit({s \in Settings : s.max_chars = MaxTextChars})
NextRest == RestNext({"r1"})
SpecRest == InitRest /\ [][NextRest]_vars

\* The SSE router with one connection, under every stream setting and every
\* Last-Event-ID header; the semaphores have room for it.
SseInit(configs) ==
    /\ now = 0
    /\ sseCfg \in configs
    /\ streamSem = sseCfg.max_streams
    /\ llmSem = Max(1, sseCfg.llm_max)
    /\ streams = [s \in Conns |-> IdleStream]
    /\ probe = IdleProbe
    /\ cfg = DefaultSettings
    /\ kv = [k \in CacheKeys |-> NoValue]
    /\ ledger = [k \in LedgerKeys |-> NoValue]
    /\ hist = [s \in HistKeys |-> <<>>]
    /\ reqs = [r \in Reqs |-> IdleReq]
    /\ obs = ObsInit
    /\ llmCfg = DefaultLlmCfg
    /\ LlmQuiet
    /\ RlQuiet

SseNext(who, headers) ==
    \/ \E s \in who, header \in headers, admitted \in BOOLEAN :
          SseRetrieve(s, header, admitted)
    \/ \E s \in who : StreamSemAcquire(s)
    \/ \E s \in who : LlmSemAcquire(s)
    \/ \E s \in who : StreamPoll(s)
    \/ \E s \in who, local \in BOOLEAN : GenOpens(s, local)
    \/ \E s \in who, tok \in Tokens : StreamDelta(s, tok)
    \/ \E s \in who : StreamExhausted(s)
    \/ \E s \in who : StreamTimeout(s)
    \/ \E s \in who : ClientLeaves(s)
    \/ SseTick

InitSse == SseInit({c \in SseConfigs : c.max_streams = 1 /\ c.llm_max = 1})
NextSse == SseNext({"s1"}, LastEventIdHeaders)
SpecSse == InitSse /\ [][NextSse]_vars

----------------------------------------------------------------------------
(* Claims about the generation client *)

\* C2 (circuit trip and recovery): with the breaker enabled, a call of
\* generate / agenerate / stream / astream that is entered after
\* fail_threshold consecutive transient failures with no success in between,
\* before open_sec has elapsed since the last of them, raises the
\* circuit-open error and sends nothing to the backend; a call entered once
\* the open period has elapsed reaches the backend, with fail_count reset
\* to 0.
C2_TripAndRecover ==
    (llmGhost.entry.valid /\ llmCfg.enabled) =>
        /\ (llmGhost.entry.streak >= llmCfg.threshold /\ llmGhost.entry.within)
              => (llmGhost.entry.rejected /\ ~llmGhost.entry.invoked)
        /\ llmGhost.entry.elapsed
              => (llmGhost.entry.invoked /\ llmGhost.entry.fail_count = 0)

\* C3 (fail-fast invariant): no request is sent to the backend while
\* now < open_until, the retry attempts of a call that began before the
\* circuit opened included.
C3_FailFast == ~llmGhost.invokedOpen

----------------------------------------------------------------------------
(* Claims about the rate limiter *)

\* C4 (rate limiter): with the store reachable, in a run of checks of one
\* identity that begins after a whole window without a check of that
\* identity, the n-th check made within one window of the first is admitted
\* when n <= limit and denied when n = limit + 1; in particular a check made
\* a whole window after the last one is admitted.
C4_WindowedLimit ==
    rlGhost.check.valid =>
        /\ rlGhost.check.n <= RateLimit => rlGhost.check.admitted
        /\ rlGhost.check.n = RateLimit + 1 => ~rlGhost.check.admitted

----------------------------------------------------------------------------
(* Claims about the semantic cache *)

\* The stored text is the given one, cut to its first m characters and
\* closed by "..." when it is longer than m (m = 0: never cut).
TextKept(stored, given, m) ==
    IF m = 0 \/ Len(given) <= m THEN stored = given
    ELSE /\ Len(stored) = m + 1
         /\ stored[m + 1] = Ellipsis
         /\ \A i \in 1..m : stored[i] = given[i]

\* The stored frames are the given ones cut where their total length
\* reaches m: each stored frame begins the given frame of the same rank.
FramesKept(stored, given, m) ==
    IF m = 0 THEN stored = given
    ELSE /\ Len(stored) <= Len(given)
         /\ \A i \in 1..Len(stored) :
               /\ Len(stored[i]) <= Len(given[i])
               /\ stored[i] = SubSeq(given[i], 1, Len(stored[i]))
         /\ Len(Join(stored)) = Min(m, Len(Join(given)))

\* The value read back is the payload given, apart from the truncation.
PayloadKept(value, payload, m) ==
    /\ (payload.text = None) = (value.text = None)
    /\ payload.text # None => TextKept(value.text[1], payload.text[1], m)
    /\ (payload.frames = None) = (value.frames = None)
    /\ payload.frames # None
          => FramesKept(value.frames[1], payload.frames[1], m)
    /\ value.citations = payload.citations
    /\ value.finish_reason = payload.finish_reason

\* The pre_cache_get just made reads the key of the last post_cache_set.
ReadsLastSet ==
    /\ obs.got.valid
    /\ obs.set.valid
    /\ obs.got.key = obs.set.key

\* C6 (cache round trip) as stated: pre_cache_get after post_cache_set with
\* no write to the key in between returns the payload, apart from the
\* truncation, before the TTL of the write is over, and nothing after.
C6_RoundTripAsStated ==
    ReadsLastSet =>
        IF now < obs.set.at + Max(1, CacheTtlSec)
        THEN /\ obs.got.value # None
             /\ PayloadKept(obs.got.value[1], obs.set.payload, cfg.max_chars)
        ELSE obs.got.value = None

\* C6 (cache round trip): the same, when the cache is enabled and both
\* calls reach the store.
C6_RoundTrip ==
    ReadsLastSet =>
        IF now < obs.set.at + Max(1, CacheTtlSec)
        THEN (cfg.cache_enabled /\ obs.set.setex_ok /\ obs.got.get_ok) =>
                /\ obs.got.value # None
                /\ PayloadKept(obs.got.value[1], obs.set.payload,
                               cfg.max_chars)
        ELSE obs.got.value = None

\* A text longer than the limit is read back, cut, within the TTL.
C6_Witness ==
    /\ ReadsLastSet
    /\ now < obs.set.at + Max(1, CacheTtlSec)
    /\ cfg.cache_enabled /\ obs.set.setex_ok /\ obs.got.get_ok
    /\ cfg.max_chars > 0
    /\ obs.set.payload.text = Some(LongText)
    /\ obs.got.value # None

----------------------------------------------------------------------------
(* Claims about the REST and streaming flows *)

\* The REST request the action just taken ended.
RestDone == obs.done.valid /\ obs.done.req.kind = "rest"

\* C1 (idempotent replay): with the ledger reachable, a REST request that
\* carries an Idempotency-Key and passes the rate limiter returns a
\* ResponseOutput; within the TTL of the first response returned under the
\* key it returns that response, without a call of the generation backend.
C1_IdempotentReplay ==
    (/\ RestDone
     /\ obs.done.req.idem_key # ""
     /\ obs.done.status # 429
     /\ ~obs.done.req.ledger_down) =>
        /\ obs.done.status = 200
        /\ obs.done.resp # None
        /\ obs.done.replay =>
              /\ obs.done.resp = obs.first.resp
              /\ ~obs.done.req.fx.backend

\* The response whose text is cut the way the cache cuts it.
Cut(resp, m) ==
    [resp EXCEPT !.text = IF Len(@) > m THEN SubSeq(@, 1, m) \o <<Ellipsis>>
                          ELSE @]

C7_BlockedNoEffects ==
    (/\ obs.done.valid
     /\ obs.done.req.entered
     /\ SensitiveShare(obs.done.req.ui.question)) =>
        /\ obs.done.req.kind = "rest" =>
              /\ obs.done.status = 200
              /\ obs.done.resp # None
              /\ obs.done.resp[1].finish_reason = "blocked"
        /\ obs.done.req.kind = "sse" =>
              /\ obs.done.status = 200
              /\ Len(obs.done.req.chunks) = 1
        /\ obs.done.req.fx = NoFx

\* A blocked REST request ends while the cache holds an entry.
C7_Witness ==
    /\ RestDone
    /\ obs.done.req.entered
    /\ SensitiveShare(obs.done.req.ui.question)
    /\ obs.done.resp # None
    /\ obs.done.resp[1].finish_reason = "blocked"
    /\ \E k \in CacheKeys : kv[k].raw # None

Markers(text) ==
    {i \in 1..Len(text) : \E k \in 1..MaxResults : text[i] = LineMarker(k)}

\* C9 (REST degraded fallback): when the generation call fails, the request
\* returns a ResponseOutput with finish_reason = degraded; its text is the
\* fixed notice when RAG is disabled or nothing was retrieved, and else a
\* summary with one line for each of the first 3 results, and no other.
C9_DegradedFallback ==
    (RestDone /\ obs.done.req.gen_failed) =>
        /\ obs.done.status = 200
        /\ obs.done.resp # None
        /\ obs.done.resp[1].finish_reason = "degraded"
        /\ LET text    == obs.done.resp[1].text
               results == obs.done.req.results
               n       == Min(3, Len(results))
           IN  IF ~cfg.rag_enabled \/ results = <<>>
               THEN text = Notice
               ELSE /\ text # Notice
                    /\ Cardinality(Markers(text)) = n
                    /\ \A k \in 1..n : \E i \in 1..(Len(text) - 1) :
                          /\ text[i] = LineMarker(k)
                          /\ text[i + 1] = results[k].metadata.source

\* The generation call fails with more than 3 results retrieved.
C9_Witness ==
    /\ RestDone
    /\ obs.done.req.gen_failed
    /\ cfg.rag_enabled
    /\ Len(obs.done.req.results) > 3
    /\ obs.done.status = 200

\* C10 (graceful degradation of the REST flow): a REST request without
\* Idempotency-Key whose input passes the guardrail and the rate limiter
\* returns a ResponseOutput, whatever fails in the store, the retriever and
\* the backend.
C10_NeverAnError ==
    (/\ RestDone
     /\ obs.done.status # 429
     /\ obs.done.req.idem_key = ""
     /\ CheckInput(obs.done.req.ui.question).allowed) =>
        /\ obs.done.status = 200
        /\ obs.done.resp # None

\* The two admission semaphores under load: two SSE connections, the
\* health worker and (in SpecGate) a REST request, for every size of the
\* semaphores; no stream deadline.
\* One allowed question of one user.
GateInputs ==
    {ui \in RequestInputs : /\ CheckInput(ui.question).allowed
                            /\ ui.user_id = "" /\ ui.session_id = ""}

GateNext(who) ==
    \/ \E s \in who, admitted \in BOOLEAN : SseRetrieve(s, None, admitted)
    \/ \E s \in who : StreamSemAcquire(s)
    \/ \E s \in who : LlmSemAcquire(s)
    \/ \E s \in who : StreamPoll(s)
    \/ \E s \in who, local \in BOOLEAN : GenOpens(s, local)
    \/ \E s \in who, tok \in Tokens : StreamDelta(s, tok)
    \/ \E s \in who : StreamExhausted(s)
    \/ \E s \in who : ClientLeaves(s)
    \/ HealthCheckStart
    \/ \E ok \in BOOLEAN : HealthCheckEnd(ok)
    \/ \E ui \in GateInputs : RestRequest("r1", ui, "", TRUE, TRUE)
    \/ RestEnter("r1", TRUE)
    \/ RestCacheGet("r1", TRUE, TRUE)
    \/ RestHistLoad("r1", TRUE, TRUE, <<>>)
    \/ RestGenerate("r1", [raised |-> FALSE, text |-> ShortText])
    \/ RestPersist("r1", TRUE, TRUE, TRUE)

InitGate == SseInit({c \in SseConfigs : c.timeout = 0 /\ c.retry_ms = 0})
NextGate == GateNext(Conns)
SpecGate == InitGate /\ [][NextGate]_vars

\* Every way a request ends: the streams with their deadline, their
\* disconnects and their errors, and a REST request whose history lookup or
\* generation call may fail.
LeakNext(who) ==
    \/ \E s \in who, admitted \in BOOLEAN : SseRetrieve(s, None, admitted)
    \/ \E s \in who : StreamSemAcquire(s)
    \/ \E s \in who : LlmSemAcquire(s)
    \/ \E s \in who : StreamPoll(s)
    \/ \E s \in who : GenOpens(s, FALSE)
    \/ \E s \in who, tok \in Tokens : StreamDelta(s, tok)
    \/ \E s \in who : StreamExhausted(s)
    \/ \E s \in who : StreamTimeout(s)
    \/ \E s \in who : StreamError(s)
    \/ \E s \in who : ClientLeaves(s)
    \/ SseTick
    \/ \E ui \in GateInputs : RestRequest("r1", ui, "", TRUE, TRUE)
    \/ RestEnter("r1", TRUE)
    \/ RestCacheGet("r1", TRUE, TRUE)
    \/ \E hist_ok \in BOOLEAN : RestHistLoad("r1", hist_ok, TRUE, <<>>)
    \/ \E raised \in BOOLEAN :
          RestGenerate("r1", [raised |-> raised, text |-> ShortText])
    \/ RestPersist("r1", TRUE, TRUE, TRUE)

InitLeak ==
    SseInit({c \in SseConfigs :
                c.retry_ms = 0 /\ c.llm_max >= 1 /\ c.max_streams = 1})
NextLeak == LeakNext({"s1"})
SpecLeak == InitLeak /\ [][NextLeak]_vars

\* The ledger functions called on their own by the requests that carry one
\* Idempotency-Key.
InitLedger == StoreInit({DefaultSettings})

NextLedger ==
    \/ \E k \in IdemKeys \ {""}, p \in Payloads, encodable \in BOOLEAN,
          setex_ok \in BOOLEAN : LedgerSet(k, p, encodable, setex_ok)
    \/ \E k \in IdemKeys \ {""}, get_ok \in BOOLEAN : LedgerGet(k, get_ok)
    \/ LedgerTick

SpecLedger == InitLedger /\ [][NextLedger]_vars

\* Concurrent requests of one session: each trims the session log and then
\* appends its turn, as answer_rest and answer_sse_tokens do.
InitHist == StoreInit({DefaultSettings})

NextHist ==
    \/ \E r \in Reqs, s \in HistKeys, get_ok \in BOOLEAN :
          SummarizeGet(r, s, get_ok)
    \/ \E r \in Reqs, s \in HistKeys, set_ok \in BOOLEAN :
          SummarizeSet(r, s, set_ok)
    \/ \E r \in Reqs, s \in HistKeys, get_ok \in BOOLEAN :
          AppendGet(r, s, get_ok)
    \/ \E r \in Reqs, s \in HistKeys, set_ok \in BOOLEAN :
          AppendSet(r, s, set_ok)

SpecHist == InitHist /\ [][NextHist]_vars

\* A client that leaves streams in mid-stream and asks again, with the
\* cache enabled and a store that answers every call.  The backend may
\* send a token that holds an e-mail address.
MailToken == <<"bob@example.com">>

InitResume ==
    StoreInit({s \in Settings : s.cache_enabled /\ s.max_chars = MaxTextChars})

NextResume ==
    \/ \E ui \in RequestInputs : SseStart("r1", ui)
    \/ \E resume_from \in 0..(MaxTokens + 1) :
          SseCacheGet("r1", TRUE, resume_from)
    \/ \E hist_ok \in BOOLEAN, retr_ok \in RetrieverFaults,
          retrieved \in Retrievable :
          SseHistLoad("r1", hist_ok, retr_ok, retrieved)
    \/ \E tok \in Tokens \cup {MailToken} : SseToken("r1", tok)
    \/ SseResume("r1", TRUE)
    \/ SseDisconnect("r1")
    \/ SseStreamFails("r1")
    \/ SseFinish("r1", TRUE, TRUE)
    \/ StoreTick

SpecResume == InitResume /\ [][NextResume]_vars

\* Two clients with different identities, one request each at a time, the
\* same question, no user_id and no session_id in the bodies; the store
\* answers every call.
IdentNext(who) ==
    \/ \E r \in who, ui \in GateInputs : RestRequest(r, ui, "", TRUE, TRUE)
    \/ \E r \in who : RestEnter(r, TRUE)
    \/ \E r \in who : RestCacheGet(r, TRUE, TRUE)
    \/ \E r \in who : RestHistLoad(r, TRUE, TRUE, <<>>)
    \/ \E r \in who, out \in GenOutcomes : RestGenerate(r, out)
    \/ \E r \in who : RestPersist(r, TRUE, TRUE, TRUE)
    \/ StoreTick

InitIdent == StoreInit({s \in Settings : s.overlap = OverlapTokens})
NextIdent == IdentNext(Reqs)
SpecIdent == InitIdent /\ [][NextIdent]_vars

----------------------------------------------------------------------------
(* The SSE transport *)

\* The event name of a frame; None for a comment or a directive.
EventOf(frame) == Field(frame, "event")

\* The connections whose response body has begun.
Opened == {s \in Conns : streams[s].pc \in {"poll", "pull", "ended"}}

\* C11: the frames of every SSE response are one metadata event first, then
\* delta events (with keepalive comments and the retry directive, which are
\* not events, among them), then one done event, which a terminated
\* response always has; nothing follows the done event.
C11_FrameOrder ==
    \A s \in Opened :
        LET fs == streams[s].frames
        IN  /\ Len(fs) >= 1
            /\ EventOf(fs[1]) = Some("metadata")
            /\ \A i \in 2..Len(fs) :
                  /\ EventOf(fs[i]) \in {None, Some("delta"), Some("done")}
                  /\ EventOf(fs[i]) = Some("done") => i = Len(fs)
            /\ streams[s].pc = "ended" => EventOf(fs[Len(fs)]) = Some("done")

C11_Witness ==
    \E s \in Conns :
        /\ streams[s].pc = "ended"
        /\ streams[s].n = 2
        /\ \E i \in 1..Len(streams[s].frames) : streams[s].frames[i] = KeepAlive

\* The ids of the delta and done events of a frame sequence, in order.
RECURSIVE EventIds(_)
EventIds(fs) ==
    IF fs = <<>> THEN <<>>
    ELSE LET rest == EventIds(Tail(fs))
         IN  IF EventOf(Head(fs)) \in {Some("delta"), Some("done")}
             THEN <<Field(Head(fs), "id")>> \o rest
             ELSE rest

\* C12: the delta and done events of a response all carry an integer id;
\* the ids are strictly increasing and the first one is resume_from + 1,
\* where resume_from is the integer value of the Last-Event-ID header, and
\* 0 when the header is absent or not an integer.
C12_EventIds ==
    \A s \in Opened :
        LET ids    == EventIds(streams[s].frames)
            header == streams[s].header
            resume_from ==
                IF header # None /\ IsIntText(header[1]) THEN IntOf(header[1])
                ELSE 0
        IN  /\ \A i \in 1..Len(ids) : ids[i] # None /\ IsIntText(ids[i][1])
            /\ Len(ids) >= 1 => IntOf(ids[1][1]) = resume_from + 1
            /\ \A i \in 1..(Len(ids) - 1) :
                  IntOf(ids[i][1]) < IntOf(ids[i + 1][1])

C12_Witness ==
    \E s \in Conns :
        /\ streams[s].pc = "ended"
        /\ streams[s].header = Some(ToString(2))
        /\ EventIds(streams[s].frames)
              = <<Some(ToString(3)), Some(ToString(4)), Some(ToString(5))>>

\* The request that the action just taken ended was a streaming request
\* answered from the cached frames.
SseHit ==
    /\ obs.done.valid
    /\ obs.done.req.kind = "sse"
    /\ obs.done.req.found # None

\* C13: on a cache hit with stored frames F, answer_sse_tokens yields
\* exactly F[max(0, resume_from - overlap):], in order, and ends without a
\* call of the retriever or the backend, for every resume_from >= 0 and
\* every overlap >= 0.
C13_ResumeReplay ==
    SseHit =>
        LET req == obs.done.req
            F   == req.found[1].frames[1]
            k   == Max(0, req.resume_from - cfg.overlap)
        IN  /\ req.chunks = [i \in 1..Max(0, Len(F) - k) |-> F[i + k]]
            /\ ~req.fx.retriever
            /\ ~req.fx.backend

\* The stated example: three frames, resume_from = 2, overlap = 1.
C13_Witness ==
    /\ SseHit
    /\ Len(obs.done.req.found[1].frames[1]) = 3
    /\ obs.done.req.resume_from = 2
    /\ cfg.overlap = 1
    /\ obs.done.req.chunks = SubSeq(obs.done.req.found[1].frames[1], 2, 3)

\* The loop of connection s is running.
InLoop(s) == streams[s].pc \in {"poll", "pull"}

\* The deadline of connection s has been reached while its loop is running.
Overdue(s) ==
    /\ InLoop(s)
    /\ streams[s].deadline # None
    /\ now >= streams[s].deadline[1]

\* The step is one of the loop of connection s, not of its client, of its
\* token generator or of the clock.
Acts(s) ==
    \/ streams'[s].pc # streams[s].pc
    \/ streams'[s].frames # streams[s].frames

\* The step ends the response of s with the timeout frame and closes the
\* token generator.
TimesOut(s) ==
    /\ streams'[s].pc = "ended"
    /\ streams'[s].gen = "closed"
    /\ streams'[s].frames =
          Append(streams[s].frames, DoneTimeout(streams[s].eid + 1))

\* The deadline is start + SSE_STREAM_TIMEOUT_SEC for a positive timeout
\* and does not change while the loop runs; a terminated response gets no
\* further frame.
DeadlineFixed(s) ==
    /\ (InLoop(s) /\ sseCfg.timeout > 0) =>
          streams[s].deadline = Some(streams[s].start_t + sseCfg.timeout)
    /\ (InLoop(s) /\ streams'[s].pc \in {"poll", "pull"}) =>
          streams'[s].deadline = streams[s].deadline
    /\ (streams[s].pc = "ended" /\ streams'[s].pc = "ended") =>
          streams'[s].frames = streams[s].frames

\* C14, as stated: once the deadline is reached before the token sequence
\* has ended, the next thing the stream does is to emit the timeout done
\* frame as its last frame and to close the token generator.
C14_DeadlineAsStated ==
    [][\A s \in Conns :
          /\ DeadlineFixed(s)
          /\ (Overdue(s) /\ Acts(s)) => TimesOut(s)]_vars

\* C14, amended: the same for a stream whose client is still connected when
\* the loop next runs.
C14_Deadline ==
    [][\A s \in Conns :
          /\ DeadlineFixed(s)
          /\ (Overdue(s) /\ streams[s].connected /\ Acts(s)) => TimesOut(s)]_vars

\* A stream that has sent a delta is ended by the timeout.
C14_Witness ==
    \E s \in Conns :
        /\ streams[s].pc = "ended"
        /\ streams[s].exit = "timeout"
        /\ streams[s].n >= 1
        /\ streams[s].connected
        /\ streams[s].frames[Len(streams[s].frames)]
              = DoneTimeout(streams[s].eid)

\* C15: once the poll has found the client gone, the response gets no
\* further frame, neither delta nor done (and no further token is pulled:
\* the generator is closed).
C15_SilentDisconnect ==
    \A s \in Conns :
        streams[s].detected # None =>
            /\ Len(streams[s].frames) = streams[s].detected[1]
            /\ streams[s].gen = "closed"

----------------------------------------------------------------------------
(* The admission semaphores *)

\* The calls of the generation backend in flight: the streams whose
\* generator has its backend stream open, the REST requests inside
\* llm.agenerate, the call of the health worker.
InFlight ==
    Cardinality({s \in Conns : streams[s].gen = "llm"})
        + Cardinality({r \in Reqs : reqs[r].pc = "generate"})
        + (IF probe.pc = "inflight" THEN 1 ELSE 0)

\* C16: in every reachable state at most max(1,
\* LLM_MAX_CONCURRENT_REQUESTS) calls of the generation backend are in
\* flight, REST, SSE and every other caller of the client counted together.
C16_GenerationGate == InFlight <= Max(1, sseCfg.llm_max)

\* The streams that have sent their metadata frame and have not ended.
OpenStreams ==
    {s \in Conns : /\ streams[s].pc \in {"poll", "pull"}
                   /\ EventOf(streams[s].frames[1]) = Some("metadata")}

\* C17: at most MAX_CONCURRENT_STREAMS SSE responses have emitted their
\* metadata frame and have not yet terminated.
C17_StreamGate == Cardinality(OpenStreams) <= sseCfg.max_streams

\* One stream is open and the other one waits for the stream semaphore,
\* although the generation semaphore has room.
C17_Witness ==
    /\ Cardinality(OpenStreams) = 1
    /\ sseCfg.max_streams = 1
    /\ llmSem > 0
    /\ \E s \in Conns : streams[s].pc = "stream_sem"

----------------------------------------------------------------------------
(* The rate limiter and the idempotency ledger under failure *)

\* C18: a check whose store transaction fails, whether or not the store
\* applied it, admits the request: check_rate_limit returns as it does for
\* a request within the limit and raises no 429.
C18_FailOpen ==
    rlGhost.check.outcome \in {"down", "lost_reply"} => rlGhost.check.admitted

\* The transaction fails for an identity that is at its limit.
C18_Witness ==
    /\ rlGhost.check.outcome = "down"
    /\ rlGhost.check.count >= RateLimit
    /\ rlGhost.check.admitted

----------------------------------------------------------------------------
(* The streaming interface of the generation client *)

\* C20: every astream call that completes without raising has yielded at
\* least one chunk.
C20_AtLeastOneChunk ==
    (/\ llmGhost.ended.valid
     /\ llmGhost.ended.kind = "astream" \/ llmGhost.ended.bridge
     /\ llmGhost.ended.result \in {"ok", "swallowed"}) =>
        llmGhost.ended.yielded

\* A call has just ended in which the backend was invoked and every
\* invocation failed with a transient status or with no status.
AllAttemptsFailed ==
    /\ llmGhost.ended.valid
    /\ llmGhost.ended.sent >= 1
    /\ llmGhost.ended.clean

\* C21 (retry bound): a call of generate, agenerate, stream or astream in
\* which every backend attempt fails with a transient status, or without a
\* status, invokes the backend at most max_retries + 1 times and then
\* raises the error to its caller.
C21_RetryBound ==
    AllAttemptsFailed =>
        /\ llmGhost.ended.sent <= llmCfg.max_retries + 1
        /\ llmGhost.ended.result = "raised"

\* The client handles a backend failure e of caller c: the request fails
\* or the open stream raises while it is read.
Handles(c, e) == LlmFail(c, e) \/ StreamRaise(c, e)

\* C22 (non-transient failures): a backend failure whose status code, in
\* whichever of the two attributes it is exposed, is outside TRANSIENT_CODES
\* is raised to the caller at once, without a retry, and leaves fail_count
\* and open_until as they were.
C22_NonTransient ==
    [][\A c \in Callers, e \in Errors :
          (~BreakerTransient(e) /\ Handles(c, e)) =>
              /\ calls'[c].pc = "idle"
              /\ cb' = cb]_vars

\* Caller c is rejected because the circuit is open: at the entry of a call
\* (lines 170, 203, 250, 297) or at the entry of the one-shot fallback that
\* astream runs after a stream without tokens (line 353).
Rejects(c) ==
    /\ CircuitIsOpen
    /\ \/ \E k \in Kinds : LlmCall(c, k)
       \/ /\ StreamEnd(c)
          /\ calls[c].kind = "astream"
          /\ ~calls[c].yielded

\* C23 (circuit-open rejection not counted): a rejection by the open circuit
\* leaves fail_count and open_until unchanged and is not retried, the
\* rejection of the fallback inside astream included.
C23_RejectionNotCounted ==
    [][\A c \in Callers :
          Rejects(c) => (cb' = cb /\ calls'[c].pc = "idle")]_vars

\* The call that the step ends has failed, or its stream was given up
\* before the backend completed it.
EndsFailedOrAborted ==
    /\ llmGhost'.ended.valid
    /\ llmGhost'.ended.result \in {"raised", "swallowed", "closed"}

\* C24 (fail_count accounting): a call that succeeds leaves fail_count at 0,
\* and a call that failed, or whose stream was aborted before completing,
\* never resets fail_count.
C24_FailCountAccounting ==
    [][/\ (llmGhost'.ended.valid /\ llmGhost'.ended.result = "ok")
            => cb'.fail_count = 0
       /\ EndsFailedOrAborted
            => ~(cb.fail_count > 0 /\ cb'.fail_count = 0)]_vars

\* The timestamps recorded for identity i that lie in [now - window, now].
InWindow(i) ==
    {m \in zsets[i].members : now - WindowSec <= m /\ m <= now}

\* C25 (rate limiter decision rule): a check that reaches the store is
\* denied exactly when the timestamps recorded for its identity within
\* [now - window, now], before its own is inserted, number at least
\* max(1, RATE_LIMIT_RPM); and the check, admitted or denied, adds a
\* timestamp of its own to the record.
C25_DecisionRule ==
    [][\A i \in Idents :
          CheckRateLimit(i, "ok") =>
              /\ ~rlGhost'.check.admitted
                     <=> Cardinality(InWindow(i)) >= RateLimit
              /\ Cardinality(zsets'[i].members)
                     = Cardinality(InWindow(i)) + 1]_vars

RECURSIVE AdmittedIn(_, _, _)
\* The checks of identity i admitted with a timestamp in lo..hi.
AdmittedIn(i, lo, hi) ==
    IF lo > hi THEN 0
    ELSE (IF lo \in DOMAIN rlLog[i] THEN rlLog[i][lo] ELSE 0)
         + AdmittedIn(i, lo + 1, hi)

\* C26 (rate limiter under concurrency): whatever the interleaving of the
\* concurrent checks of one identity, the checks admitted with timestamps
\* within one window (s - window, s] number at most max(1, RATE_LIMIT_RPM).
C26_AtMostLimit ==
    \A i \in Idents, s \in 0..MaxTime :
        AdmittedIn(i, s - WindowSec + 1, s) <= RateLimit

\* Stream s is inside the `async with llm_sem` block of event_gen.
HoldsPermit(s) == streams[s].pc \in {"poll", "pull"}

\* A REST request has been answered with the blocked notice or from the
\* semantic cache.
AnsweredWithoutBackend ==
    /\ RestDone
    /\ obs.done.resp # None
    /\ \/ obs.done.resp[1].finish_reason = "blocked"
       \/ obs.done.req.found # None

\* C27 (generation gate scope): a stream that is answered from the cache or
\* with the blocked notice holds no generation permit, and a REST request
\* answered from the cache or blocked by the input guardrail has completed
\* without acquiring one (answer_rest is only entered with a permit).
C27_GateScope ==
    /\ \A s \in Conns : streams[s].gen = "local" => ~HoldsPermit(s)
    /\ AnsweredWithoutBackend => ~obs.done.req.entered

\* The generation permits and the stream permits that requests in flight
\* hold: a stream from its `async with` to its exit, a REST request while
\* answer_rest runs.
GenPermitsOut ==
    Cardinality({s \in Conns : HoldsPermit(s)})
        + Cardinality({r \in Reqs : reqs[r].pc \in
                          {"cache_get", "hist_load", "generate", "persist"}})

StreamPermitsOut ==
    Cardinality({s \in Conns : streams[s].pc \in {"llm_sem", "poll", "pull"}})

\* C28 (no permit leak): the free permits of each gate and the permits held
\* by the requests in flight add up to the configured capacity, however the
\* requests before them have ended; with no request in flight both gates
\* are at their capacity.
C28_NoPermitLeak ==
    /\ llmSem + GenPermitsOut = Max(1, sseCfg.llm_max)
    /\ streamSem + StreamPermitsOut = sseCfg.max_streams

\* A stream has ended at its deadline, a REST request has just ended with
\* an error inside answer_rest, nothing is in flight and both gates are
\* full.
C28_Witness ==
    /\ streams["s1"].exit = "timeout"
    /\ streams["s1"].pc = "ended"
    /\ RestDone /\ obs.done.status = 500 /\ obs.done.req.entered
    /\ \A r \in Reqs : reqs[r].pc = "idle"
    /\ llmSem = Max(1, sseCfg.llm_max)
    /\ streamSem = sseCfg.max_streams

\* The id that the router gives to the k-th chunk of a response
\* (routers/sse.py, lines 78-80 and 126-127): eid starts at resume_from and
\* is incremented before each delta frame.
DeltaId(resume_from, k) == resume_from + k

\* C29 (event id equals frame position): in a response replayed from the
\* cache, the delta event with id n carries the frame at position n of the
\* stored frame list, for every resume_from and every overlap.
C29_IdIsPosition ==
    SseHit =>
        LET req == obs.done.req
            F   == req.found[1].frames[1]
        IN  \A k \in 1..Len(req.chunks) :
               LET n == DeltaId(req.resume_from, k)
               IN  n <= Len(F) /\ req.chunks[k] = F[n]

\* C30 (generation stream release): once the consumer of a generation
\* stream has closed it, the call has no request or stream open at the
\* backend and no producer goes on pulling tokens, with the native async
\* client and with the thread bridge alike.
C30_StreamReleased ==
    \A c \in Callers : calls[c].abandoned => calls[c].pc = "idle"

----------------------------------------------------------------------------
(* Incremental persistence and resumption of the streaming flow *)

IsPrefix(a, b) == Len(a) <= Len(b) /\ SubSeq(b, 1, Len(a)) = a

\* The cache entry of the question of request r: None, or the cached dict.
EntryOf(store, r) ==
    LET raw == store[CacheKey("any",
                   CheckInput(reqs[r].ui.question).transformed_text,
                   SessionCtx(reqs[r].ui))].raw
    IN  IF raw = None THEN None ELSE Some(JsonLoads(raw[1]))

\* C31 (incremental persistence): with the cache enabled and a flush
\* interval N > 0, when the consumer closes a cache-miss stream that has
\* delivered at least N tokens, the frames delivered up to the last N-th
\* token have been flushed to the cache, and a frames entry left under the
\* key of the question is a prefix of the tokens delivered.
C31_FlushedPrefix ==
    [][\A r \in Reqs :
          (/\ SseClose(r)
           /\ reqs[r].pc = "sse_yielded"
           /\ cfg.cache_enabled /\ Max(0, FlushEvery) > 0
           /\ Len(reqs[r].chunks) >= Max(0, FlushEvery)) =>
              /\ reqs[r].fx.cache_write
              /\ reqs[r].since < Max(0, FlushEvery)
              /\ LET e == EntryOf(kv', r)
                 IN  (e # None /\ e[1].frames # None) =>
                        IsPrefix(Join(e[1].frames[1]), Join(reqs[r].chunks))]_vars

\* The turn history_append adds (the roles of its two messages).
Turn == <<"user", "assistant">>

\* What the end of a stream that failed must leave behind: the chunks
\* delivered are the tokens yielded before the failure and one fallback
\* text, the turn is appended to the session log, and the cache entry of
\* the question holds the delivered chunks as frames and the redacted
\* fallback as text (apart from the configured truncation).
FailedStreamSettled(r) ==
    LET req      == reqs[r]
        question == CheckInput(req.ui.question).transformed_text
        fallback == FallbackFromContext(question, req.results)
        n        == Len(req.chunks)
        done     == obs'.done
        e        == EntryOf(kv', r)
    IN  /\ done.valid /\ done.status = 200
        /\ done.req.chunks = req.chunks
        /\ n >= 1 /\ req.chunks[n] = fallback
        /\ \A i \in 1..(n - 1) : req.chunks[i] \in Tokens
        /\ hist'[HistSession(req.ui)] = hist[HistSession(req.ui)] \o Turn
        /\ e = Some(CachePayload(Dict(Some(CheckOutput(fallback)),
                                      Some(req.chunks), None, None)))

\* C32 as stated: whenever the generator runs to its end after the stream
\* failed, whatever the store does, the fallback was its one further chunk,
\* the turn is in the history and the {frames, text} entry is in the cache.
C32_AsStated ==
    [][\A r \in Reqs :
          (/\ reqs[r].pc = "sse_fallback_yielded"
           /\ \E append_ok \in BOOLEAN, setex_ok \in BOOLEAN :
                 SseFinish(r, append_ok, setex_ok)) =>
              FailedStreamSettled(r)]_vars

\* C32 (stream failure), amended: with the cache enabled, when the consumer
\* asks for the chunk after the fallback and the store takes both writes,
\* the fallback was the one further chunk, the turn is appended and the
\* {frames, text} entry is written; the generator ends without raising.
C32_StreamFailure ==
    [][\A r \in Reqs :
          (/\ reqs[r].pc = "sse_fallback_yielded"
           /\ cfg.cache_enabled
           /\ SseFinish(r, TRUE, TRUE)) =>
              FailedStreamSettled(r)]_vars

C32_Witness ==
    /\ obs.done.valid /\ obs.done.status = 200
    /\ obs.done.req.kind = "sse" /\ obs.done.req.gen_failed
    /\ obs.done.req.persisted
    /\ Len(obs.done.req.chunks) = 2
    /\ obs.done.req.chunks[1] \in Tokens

IsSuffix(a, b) == Len(a) <= Len(b) /\ SubSeq(b, Len(b) - Len(a) + 1, Len(b)) = a

\* C33 (atomic history updates): under every interleaving of the requests
\* of a session, each step leaves the session log either extended at its
\* end (an append) or cut to its last messages (a trim): no message other
\* than the oldest ones ever leaves the log.
C33_NoLostTurn ==
    [][\A s \in HistKeys :
          IsPrefix(hist[s], hist'[s]) \/ IsSuffix(hist'[s], hist[s])]_vars

----------------------------------------------------------------------------
(* The two kinds of cache entry *)

\* The value under a cache key is an entry of the streaming flow.
HasFrames(v) == v.raw # None /\ JsonLoads(v.raw[1]).frames # None

\* C34 (entries kept apart by kind): a REST request is never answered from
\* an entry that holds frames, and the entry it writes never replaces an
\* entry that holds frames.
C34_KindsApart ==
    [][(obs'.done.valid /\ obs'.done.req.kind = "rest") =>
          /\ obs'.done.req.found # None =>
                obs'.done.req.found[1].frames = None
          /\ \A k \in CacheKeys : HasFrames(kv[k]) => HasFrames(kv'[k])]_vars

----------------------------------------------------------------------------
(* The open period of the circuit *)

\* C35 (open period fixed): while the circuit is open (now < open_until)
\* no step changes open_until: a failure of a call in flight does not move
\* it later and a success of a call in flight does not close the circuit.
C35_OpenPeriodFixed ==
    [][now < cb.open_until => cb'.open_until = cb.open_until]_vars

----------------------------------------------------------------------------
(* The chunks of one streaming call *)

\* C36 (no duplicated chunks across retries): the chunks a caller receives
\* from one streaming call come from a single backend stream: no call
\* yields a chunk of a stream after it has yielded a chunk of an earlier
\* attempt or of the first response shape.
C36_SingleAttempt ==
    \A c \in Callers : ~(calls[c].earlier /\ calls[c].streamed)

----------------------------------------------------------------------------
(* Resumption after a disconnect *)

\* The request just answered from the cache is the one a client re-issued
\* after it had left the stream of the same input, with Last-Event-ID set
\* to the last id it had received.
Resumed ==
    /\ SseHit
    /\ obs.left.valid
    /\ obs.done.req.ui = obs.left.ui
    /\ obs.done.req.resume_from = obs.left.n

\* C37 (resume delivers the whole answer): a replay served to a resuming
\* client is taken from the entry of a stream that has ended (an entry with
\* the final text), and it begins no later than the frame after the last
\* one the client had received, so that what the client had and what it now
\* gets hold every frame of the answer.
C37_ResumeWhole ==
    Resumed =>
        LET F == obs.done.req.found[1].frames[1]
        IN  /\ obs.done.req.found[1].text # None
            /\ Len(F) - Len(obs.done.req.chunks) <= obs.left.n

----------------------------------------------------------------------------
(* Isolation between identities *)

\* C38 (isolation between identities): a REST request answered from the
\* cache with the answer stored for an earlier request has the identity of
\* that earlier request.
C38_Isolation ==
    (/\ RestDone
     /\ obs.done.status = 200
     /\ obs.done.req.found # None
     /\ obs.done.req.reuse) =>
        obs.prev.idt = obs.done.req.idt

----------------------------------------------------------------------------
(* Redaction of what the streaming flow persists *)

\* The output guardrail leaves the text as it is: nothing in it is redacted.
Redacted(text) == CheckOutput(text) = text

\* C39 (nothing unredacted is persisted by the streaming flow): in every
\* cache entry that holds frames, no frame and no text holds content that
\* the output guardrail redacts.
C39_NothingUnredacted ==
    \A k \in CacheKeys :
        HasFrames(kv[k]) =>
            LET e == JsonLoads(kv[k].raw[1])
            IN  /\ \A i \in 1..Len(e.frames[1]) : Redacted(e.frames[1][i])
                /\ e.text # None => Redacted(e.text[1])

----------------------------------------------------------------------------
(* Heartbeat *)

\* C40 (heartbeat): while a response is open and its client connected, no
\* more than max(5, SSE_HEARTBEAT_SEC) seconds pass without a frame.  For a
\* response that has sent its opening frames (at start_t) and nothing
\* since, and that waits for a token of the generator, the time since
\* start_t stays within the heartbeat period.
C40_Heartbeat ==
    \A s \in Conns :
        (/\ streams[s].pc = "pull"
         /\ streams[s].connected
         /\ streams[s].frames = Opening("default")) =>
            now - streams[s].start_t <= Max(HeartbeatFloor, HeartbeatSec)

====
